---- MODULE Spec2Model ----
(***************************************************************************)
(* vvm-rs: the Vyper version manager (src/src/lib.rs), its release catalog *)
(* (src/src/releases.rs, src/src/platform.rs), its command line            *)
(* (src/src/vvm/main.rs) and the caching compiler wrapper                  *)
(* (src/src/vyper/main.rs, src/src/vyper/cache.rs).                        *)
(*                                                                         *)
(* Strings (file names, file contents, version strings) are sequences of   *)
(* lexemes: one-character strings for digits and ".", and whole words for  *)
(* the fixed prefixes the code formats with (".lock-", "vyper-", ...).     *)
(* Optional values are sets with at most one element.                      *)
(***************************************************************************)
EXTENDS Integers, Sequences, FiniteSets, TLC

(***************************************************************************)
(* Bounds of the model.                                                    *)
(***************************************************************************)
\* bytes of a downloaded binary (std::io::copy writes them one chunk at a time)
PayloadLen == 2
\* concurrent callers of install()
NumInstallers == 3

(***************************************************************************)
(* The state. Each group is described where its operations are defined.    *)
(***************************************************************************)
VARIABLES
    \* the file system under VVM_HOME
    ptr, vdir, lockIno, cacheDir,
    \* the concurrent callers of install()
    pc, ver, lockFd, holder, nextIno, off, raced, creator,
    \* the source files, the cache file and the cache in memory
    src, cacheDoc, cache, clast, persisted,
    \* the last call of the library's public operations
    last, lastPtr,
    \* an invocation of the vyper wrapper
    wpc, wargs, wfile, wres, wchild, spawned, readPtr, wsnap

fsVars == <<ptr, vdir, lockIno, cacheDir>>
instVars == <<pc, ver, lockFd, holder, nextIno, off, raced, creator>>
cacheVars == <<src, cacheDoc, cache, clast, persisted>>
regVars == <<last, lastPtr>>
wrapVars == <<wpc, wargs, wfile, wres, wchild, spawned, readPtr, wsnap>>

vars == <<fsVars, instVars, cacheVars, regVars, wrapVars>>

(***************************************************************************)
(* semver::Version: Display and parse.                                     *)
(***************************************************************************)
Digits == <<"0", "1", "2", "3", "4", "5", "6", "7", "8", "9">>

IsDigit(c) == \E i \in 1..Len(Digits) : Digits[i] = c

DigitVal(c) == (CHOOSE i \in 1..Len(Digits) : Digits[i] = c) - 1

RECURSIVE DecStr(_)
DecStr(n) ==
    IF n < Len(Digits) THEN <<Digits[n + 1]>>
    ELSE DecStr(n \div Len(Digits)) \o <<Digits[(n % Len(Digits)) + 1]>>

RECURSIVE DecVal(_)
DecVal(s) ==
    IF s = <<>> THEN 0
    ELSE DecVal(SubSeq(s, 1, Len(s) - 1)) * Len(Digits) + DigitVal(s[Len(s)])

\* a numeric identifier of semver: digits only, not empty, no leading zero
IsNumeric(s) ==
    /\ s /= <<>>
    /\ \A i \in 1..Len(s) : IsDigit(s[i])
    /\ (Len(s) > 1 => s[1] /= "0")

Ver(a, b, c) == [major |-> a, minor |-> b, patch |-> c]

\* Display for Version: "<major>.<minor>.<patch>"
VersionToString(v) ==
    DecStr(v.major) \o <<".">> \o DecStr(v.minor) \o <<".">> \o DecStr(v.patch)

\* Version::parse(..).ok(): the set holding the version, or {} when the text
\* is not three numeric identifiers separated by "."
ParseVersion(s) ==
    LET dots == {i \in 1..Len(s) : s[i] = "."} IN
    IF Cardinality(dots) /= 2 THEN {}
    ELSE LET d1 == CHOOSE i \in dots : \A j \in dots : i <= j
             d2 == CHOOSE i \in dots : \A j \in dots : j <= i
             a == SubSeq(s, 1, d1 - 1)
             b == SubSeq(s, d1 + 1, d2 - 1)
             c == SubSeq(s, d2 + 1, Len(s))
         IN  IF IsNumeric(a) /\ IsNumeric(b) /\ IsNumeric(c)
             THEN {Ver(DecVal(a), DecVal(b), DecVal(c))}
             ELSE {}

\* the order of the versions' texts, character by character ("." before the
\* digits)
RECURSIVE TextLess(_, _)
TextLess(s, t) ==
    IF t = <<>> THEN FALSE
    ELSE IF s = <<>> THEN TRUE
    ELSE IF s[1] = t[1] THEN TextLess(SubSeq(s, 2, Len(s)), SubSeq(t, 2, Len(t)))
    ELSE IF s[1] = "." THEN TRUE
    ELSE IF t[1] = "." THEN FALSE
    ELSE DigitVal(s[1]) < DigitVal(t[1])

\* versions ordered as their texts are
VersionLessText(a, b) == TextLess(VersionToString(a), VersionToString(b))

\* Ord for Version: by major, then minor, then patch, numerically
VersionLess(a, b) ==
    \/ a.major < b.major
    \/ a.major = b.major /\ a.minor < b.minor
    \/ a.major = b.major /\ a.minor = b.minor /\ a.patch < b.patch

\* the versions the callers of the library ask for
Versions == {Ver(0, 3, 3), Ver(0, 3, 10)}

\* the versions the release catalog offers, which the command line may install
CatalogVersions == Versions \cup {Ver(0, 3, 7)}

(***************************************************************************)
(* Paths under VVM_HOME.                                                   *)
(***************************************************************************)
\* version_path(version): the name of the version's directory in VVM_HOME
version_path(v) == VersionToString(v)

\* the binary's name inside the version directory: format!("vyper-{}", version)
vyper_name(v) == <<"vyper-">> \o VersionToString(v)

\* global_version_path(): the pointer file's name in VVM_HOME
global_version_path == <<".global-version">>

\* a lock path that leaves the version out
lock_file_path_shared(v) == <<".lock-", "vyper-">>

\* lock_file_path(version): format!(".lock-vyper-{}", version)
lock_file_path(v) == <<".lock-", "vyper-">> \o VersionToString(v)

\* the version directories and the lock files the library's callers may
\* create in VVM_HOME, and those the command line may create as well
VersionDirs == {version_path(v) : v \in Versions}
LockPaths == {lock_file_path(v) : v \in Versions}
CatalogDirs == {version_path(v) : v \in CatalogVersions}
CatalogLocks == {lock_file_path(v) : v \in CatalogVersions}

\* get_cache_path(): VVM_HOME/cache/vvm-vyper-files-cache.json; the entry of
\* VVM_HOME it creates is the directory "cache"
cache_dir_name == <<"cache">>

(***************************************************************************)
(* The file system under VVM_HOME.                                         *)
(*   ptr      the pointer file .global-version: [exists, content]          *)
(*   vdir     per version directory path, the directory: [exists, files],  *)
(*            files a function from the names in it to [content, mode]     *)
(*   lockIno  per lock path, the inode linked at it, 0 if none             *)
(*   cacheDir whether VVM_HOME/cache exists                                *)
(***************************************************************************)
NoDir == [exists |-> FALSE, files |-> <<>>]
EmptyDir == [exists |-> TRUE, files |-> <<>>]
NoFile == [exists |-> FALSE, content |-> <<>>]

\* a byte of the release artifact of version v, and the zero byte of a hole
Byte(v, i) == [of |-> VersionToString(v), idx |-> i]
ZeroByte == [of |-> <<>>, idx |-> 0]

\* res.bytes(): the artifact fetched for the version
Payload(v) == [i \in 1..PayloadLen |-> Byte(v, i)]

\* the mode set_permissions gives the binary
Mode777 == 511
\* the mode File::create gives a new file (0o666 before the umask)
Mode666 == 438

(***************************************************************************)
(* File operations of std::fs, on the modelled files.                      *)
(***************************************************************************)
\* fs::File::create(path) on a pointer-like file: created or truncated
TruncateFile(f) == [exists |-> TRUE, content |-> <<>>]

\* write of one byte b through a descriptor whose position is o: bytes past
\* the end of the file leave a hole of zero bytes
WriteAt(c, o, b) ==
    IF o < Len(c) THEN [c EXCEPT ![o + 1] = b]
    ELSE c \o [i \in 1..(o - Len(c)) |-> ZeroByte] \o <<b>>

\* setup_home(): creates VVM_HOME and an empty .global-version when missing
setup_home(p) == IF p.exists THEN p ELSE TruncateFile(p)

\* setup_version(version): creates the version's directory when missing
setup_version(d) == IF d.exists THEN d ELSE EmptyDir

\* fs::File::create(vyper_path) in the version's directory: a new empty file,
\* or the existing file truncated (its mode kept)
CreateIn(d, name) ==
    [d EXCEPT !.files =
        [n \in (DOMAIN d.files) \cup {name} |->
            IF n = name
            THEN [content |-> <<>>,
                  mode |-> IF name \in DOMAIN d.files
                           THEN d.files[name].mode ELSE Mode666]
            ELSE d.files[n]]]

\* f.set_permissions(Permissions::from_mode(0o777))
SetMode(d, name) == [d EXCEPT !.files[name].mode = Mode777]

\* one write of std::io::copy through the installer's descriptor
WriteIn(d, name, o, b) ==
    [d EXCEPT !.files[name].content = WriteAt(d.files[name].content, o, b)]

(***************************************************************************)
(* install(version) / blocking_install(version), one step per system call, *)
(* run by NumInstallers concurrent callers.                                *)
(*   pc       where each caller is in install(): idle, fetched, opened,    *)
(*            locked, dir, created, copy, unlinked, done; and failing,     *)
(*            unlinkedErr, failedIo on the paths of a failed system call,  *)
(*            failed when the download failed; a caller of use_version is  *)
(*            at ptrOpen after File::create and at ptrDone after write_all *)
(*   ver      the version it installs                                      *)
(*   lockFd   the inode its lock-file descriptor is open on (0: none)      *)
(*   holder   per lock inode, the caller whose descriptor holds flock on   *)
(*            it (0: free)                                                 *)
(*   nextIno  the next inode number                                        *)
(*   off      the position of each caller's descriptor on the binary       *)
(*   raced    per version, whether two callers were past lock_exclusive    *)
(*            and before the drop of the lock at the same time             *)
(*   creator  per lock inode, the caller whose open() created it (0: not   *)
(*            created yet)                                                 *)
(***************************************************************************)
Installers == 1..NumInstallers
Inodes == 1..NumInstallers

\* between `let _lock = try_lock_file(..)?` and the drop of _lock
InCritical(p) == pc[p] \in {"locked", "dir", "created", "copy", "failing"}

Racing(v, pcs) ==
    \E p, q \in Installers :
        /\ p /= q /\ ver[p] = v /\ ver[q] = v
        /\ pcs[p] \in {"locked", "dir", "created", "copy"}
        /\ pcs[q] \in {"locked", "dir", "created", "copy"}

\* try_lock_file: OpenOptions::new().create(true).read(true).write(true).open
OpenLock(p) ==
    /\ pc[p] = "fetched"
    /\ pc' = [pc EXCEPT ![p] = "opened"]
    /\ IF lockIno[lock_file_path(ver[p])] = 0
       THEN /\ lockIno' = [lockIno EXCEPT ![lock_file_path(ver[p])] = nextIno]
            /\ lockFd' = [lockFd EXCEPT ![p] = nextIno]
            /\ creator' = [creator EXCEPT ![nextIno] = p]
            /\ nextIno' = nextIno + 1
       ELSE /\ lockFd' = [lockFd EXCEPT ![p] = lockIno[lock_file_path(ver[p])]]
            /\ UNCHANGED <<lockIno, nextIno, creator>>
    /\ UNCHANGED <<ptr, vdir, cacheDir, ver, holder, off, raced,
                   cacheVars, regVars, wrapVars>>

\* try_lock_file: _lock_file.lock_exclusive(), which blocks while another
\* descriptor holds the lock on the same inode
LockExclusive(p) ==
    /\ pc[p] = "opened"
    /\ holder[lockFd[p]] = 0
    /\ holder' = [holder EXCEPT ![lockFd[p]] = p]
    /\ pc' = [pc EXCEPT ![p] = "locked"]
    /\ raced' = [raced EXCEPT ![ver[p]] = @ \/ Racing(ver[p], pc')]
    /\ UNCHANGED <<fsVars, ver, lockFd, nextIno, off, creator,
                   cacheVars, regVars, wrapVars>>

\* do_install: setup_version(version)
SetupVersion(p) ==
    /\ pc[p] = "locked"
    /\ vdir' = [vdir EXCEPT ![version_path(ver[p])] = setup_version(@)]
    /\ pc' = [pc EXCEPT ![p] = "dir"]
    /\ UNCHANGED <<ptr, lockIno, cacheDir, ver, lockFd, holder, nextIno, off, raced, creator,
                   cacheVars, regVars, wrapVars>>

\* Installer::install: fs::File::create(&vyper_path)
CreateBinary(p) ==
    /\ pc[p] = "dir"
    /\ vdir' = [vdir EXCEPT ![version_path(ver[p])] = CreateIn(@, vyper_name(ver[p]))]
    /\ off' = [off EXCEPT ![p] = 0]
    /\ pc' = [pc EXCEPT ![p] = "created"]
    /\ UNCHANGED <<ptr, lockIno, cacheDir, ver, lockFd, holder, nextIno, raced, creator,
                   cacheVars, regVars, wrapVars>>

\* Installer::install: f.set_permissions(Permissions::from_mode(0o777))
SetPermissions(p) ==
    /\ pc[p] = "created"
    /\ vdir' = [vdir EXCEPT ![version_path(ver[p])] = SetMode(@, vyper_name(ver[p]))]
    /\ pc' = [pc EXCEPT ![p] = "copy"]
    /\ UNCHANGED <<ptr, lockIno, cacheDir, ver, lockFd, holder, nextIno, off, raced, creator,
                   cacheVars, regVars, wrapVars>>

\* std::io::copy has written all of binbytes
CopyShort(p) == off[p] >= Len(Payload(ver[p])) - 1
CopyDone(p) == off[p] = Len(Payload(ver[p]))

\* Installer::install: std::io::copy(&mut content, &mut f), one write
CopyChunk(p) ==
    /\ pc[p] = "copy"
    /\ ~CopyDone(p)
    /\ vdir' = [vdir EXCEPT ![version_path(ver[p])] =
                   WriteIn(@, vyper_name(ver[p]), off[p], Payload(ver[p])[off[p] + 1])]
    /\ off' = [off EXCEPT ![p] = @ + 1]
    /\ UNCHANGED <<ptr, lockIno, cacheDir, pc, ver, lockFd, holder, nextIno, raced, creator,
                   cacheVars, regVars, wrapVars>>

\* LockFile::drop: fs::remove_file(&self.lock_path), its error ignored; it
\* unlinks whichever inode is linked at the lock path
DropRemove(p) ==
    /\ \/ pc[p] = "copy" /\ CopyDone(p)
       \/ pc[p] = "failing"
    /\ lockIno' = [lockIno EXCEPT ![lock_file_path(ver[p])] = 0]
    /\ pc' = [pc EXCEPT ![p] = IF pc[p] = "failing" THEN "unlinkedErr"
                                ELSE "unlinked"]
    /\ UNCHANGED <<ptr, vdir, cacheDir, ver, lockFd, holder, nextIno, off, raced, creator,
                   cacheVars, regVars, wrapVars>>

\* LockFile::drop when fs::remove_file fails: `let _ =` discards the error and
\* the file stays at the lock path
DropRemoveFail(p) ==
    /\ pc[p] = "copy" /\ CopyDone(p)
    /\ pc' = [pc EXCEPT ![p] = "unlinked"]
    /\ UNCHANGED <<fsVars, ver, lockFd, holder, nextIno, off, raced, creator,
                   cacheVars, regVars, wrapVars>>

\* a drop that leaves the descriptor open, so the flock stays held
DropCloseKeepsLock(p) ==
    /\ pc[p] \in {"unlinked", "unlinkedErr"}
    /\ pc' = [pc EXCEPT ![p] = IF pc[p] = "unlinkedErr" THEN "failedIo" ELSE "done"]
    /\ UNCHANGED <<fsVars, ver, lockFd, holder, nextIno, off, raced, creator,
                   cacheVars, regVars, wrapVars>>

\* after LockFile::drop the field _lock_file is dropped: the descriptor is
\* closed, which releases the flock on its inode
DropClose(p) ==
    /\ pc[p] \in {"unlinked", "unlinkedErr"}
    /\ holder' = [holder EXCEPT ![lockFd[p]] = 0]
    /\ lockFd' = [lockFd EXCEPT ![p] = 0]
    /\ pc' = [pc EXCEPT ![p] = IF pc[p] = "unlinkedErr" THEN "failedIo" ELSE "done"]
    /\ UNCHANGED <<fsVars, ver, nextIno, off, raced, creator,
                   cacheVars, regVars, wrapVars>>

(***************************************************************************)
(* The compilation cache (src/src/vyper/cache.rs).                         *)
(*   src       the source files, by canonical path: [exists, content]      *)
(*   cacheDoc  the cache file VVM_HOME/cache/vvm-vyper-files-cache.json:   *)
(*             [exists, content], the content a sequence of JSON tokens    *)
(*   cache     the VyperFilesCache in memory: [format, files], files a     *)
(*             function from paths to CacheEntry                           *)
(*   clast     the last cache operation and how it ended                   *)
(*   persisted the cache last written in full to the cache file, while     *)
(*             nothing else has touched the file since (else {})           *)
(***************************************************************************)
\* bytes of the digest the model keeps (MD5 has 16)
DigestBytes == 1

\* const FORMAT_VERSION
FORMAT_VERSION == <<"vvm-rs-vyper-cache-1">>
\* the tag of a cache document written in another format
OtherFormat == <<"vvm-rs-vyper-cache-0">>

\* canonical paths of the source files, in the order of Ord for PathBuf
PathList == << <<"/", "w", "/", "a.vy">>, <<"/", "w", "/", "b.vy">> >>
Paths == {PathList[i] : i \in 1..Len(PathList)}

\* the bytes a source file is made of, and the contents it takes
SrcAlphabet == <<"x", "y">>
Contents == { <<"x", "y">>, <<"y", "x">> }
\* the first file is the one being edited; the second is a bystander with
\* one content
ContentsOf(path) == IF path = PathList[1] THEN Contents ELSE { <<"x">> }

\* what the compiler prints for a file
Outputs == { <<"0x", "60">>, <<"0x", "61">> }

ByteCode(b) == CHOOSE i \in 1..Len(SrcAlphabet) : SrcAlphabet[i] = b

RECURSIVE Pow(_, _)
Pow(b, e) == IF e = 0 THEN 1 ELSE b * Pow(b, e - 1)

\* md5::Md5 over the file's bytes: a digest of DigestBytes bytes that depends
\* on every byte and on the order of the bytes
RECURSIVE Md5(_)
Md5(c) ==
    IF c = <<>> THEN 0
    ELSE (Md5(SubSeq(c, 1, Len(c) - 1)) * (Len(SrcAlphabet) + 1) + ByteCode(c[Len(c)]))
             % Pow(256, DigestBytes)

HexDigits == <<"0", "1", "2", "3", "4", "5", "6", "7", "8", "9",
               "a", "b", "c", "d", "e", "f">>

\* hex::encode of a digest of n bytes: 2n lowercase hex digits
RECURSIVE HexEncode(_, _)
HexEncode(x, n) ==
    IF n = 0 THEN <<>>
    ELSE HexEncode(x \div 256, n - 1)
             \o <<HexDigits[((x % 256) \div 16) + 1], HexDigits[(x % 16) + 1]>>

\* get_file_hash(path): fails when the file cannot be opened
get_file_hash(path) ==
    IF src[path].exists
    THEN [ok |-> TRUE, hash |-> HexEncode(Md5(src[path].content), DigestBytes)]
    ELSE [ok |-> FALSE, hash |-> <<>>]

CacheEntry(h, p, b) ==
    [content_hash |-> h, source_name |-> p, deployed_bytecode |-> b]

\* VyperFilesCache::new()
VyperFilesCacheNew == [format |-> FORMAT_VERSION, files |-> <<>>]

\* BTreeMap::insert
MapInsert(m, k, e) == [x \in (DOMAIN m) \cup {k} |-> IF x = k THEN e ELSE m[x]]

\* CacheEntry::is_dirty, with the error of get_file_hash taken for clean
is_dirty_error_clean(e) ==
    LET h == get_file_hash(e.source_name) IN h.ok /\ h.hash /= e.content_hash

\* CacheEntry::is_dirty
is_dirty(e) ==
    LET h == get_file_hash(e.source_name) IN ~(h.ok /\ h.hash = e.content_hash)

\* VyperFilesCache::add_entry that only updates an entry it finds
add_entry_update_only(c, file, bytecode) ==
    LET h == get_file_hash(file) IN
    IF ~h.ok THEN [ok |-> FALSE, cache |-> c]
    ELSE [ok |-> TRUE,
          cache |-> IF file \in DOMAIN c.files
                    THEN [c EXCEPT !.files[file].content_hash = h.hash,
                                   !.files[file].deployed_bytecode = bytecode]
                    ELSE c]

\* VyperFilesCache::add_entry(file, bytecode): [ok, cache]
add_entry(c, file, bytecode) ==
    LET h == get_file_hash(file)
        \* `if let Some(entry) = self.entry_mut(..)`: update in place
        updated == IF file \in DOMAIN c.files /\ h.ok
                   THEN [c EXCEPT !.files[file].content_hash = h.hash,
                                  !.files[file].deployed_bytecode = bytecode]
                   ELSE c
    IN  IF ~h.ok THEN [ok |-> FALSE, cache |-> c]
        ELSE [ok |-> TRUE,
              cache |-> [updated EXCEPT !.files =
                            MapInsert(updated.files, file,
                                      CacheEntry(h.hash, file, bytecode))]]

(***************************************************************************)
(* The cache document: serde_json of VyperFilesCache                       *)
(*   { "_format": <format>, "files": { <path>: { "contentHash": ..,        *)
(*     "sourceName": .., "deployedBytecode": .. }, .. } }                  *)
(* as a sequence of tokens [t, s]: "{" and "}", keys and string values.    *)
(***************************************************************************)
Open == [t |-> "{", s |-> <<>>]
Close == [t |-> "}", s |-> <<>>]
Key(k) == [t |-> "key", s |-> k]
Str(v) == [t |-> "str", s |-> v]

EntryTokens(k, e) ==
    << Key(k), Open,
       Key(<<"contentHash">>), Str(e.content_hash),
       Key(<<"sourceName">>), Str(e.source_name),
       Key(<<"deployedBytecode">>), Str(e.deployed_bytecode),
       Close >>

\* the entries of a BTreeMap, in key order
RECURSIVE EntriesTokens(_, _)
EntriesTokens(files, i) ==
    IF i > Len(PathList) THEN <<>>
    ELSE (IF PathList[i] \in DOMAIN files
          THEN EntryTokens(PathList[i], files[PathList[i]]) ELSE <<>>)
         \o EntriesTokens(files, i + 1)

HeadTokens(format) ==
    << Open, Key(<<"_format">>), Str(format), Key(<<"files">>), Open >>
TailTokens == << Close, Close >>

\* serde_json::to_writer_pretty(file, self)
Serialize(c) ==
    HeadTokens(c.format) \o EntriesTokens(c.files, 1) \o TailTokens

\* the tokens before the entries, of one entry, and after the entries
HeadLen == Len(HeadTokens(<<>>))
EntryLen == Len(EntryTokens(<<>>, CacheEntry(<<>>, <<>>, <<>>)))
TailLen == Len(TailTokens)

EntryAt(d, b) ==
    CacheEntry(d[b + 4].s, d[b + 6].s, d[b + 8].s)

EntryWellFormed(d, b) ==
    /\ d[b + 1].t = "key"
    /\ d[b + 2] = Open
    /\ d[b + 3] = Key(<<"contentHash">>) /\ d[b + 4].t = "str"
    /\ d[b + 5] = Key(<<"sourceName">>) /\ d[b + 6].t = "str"
    /\ d[b + 7] = Key(<<"deployedBytecode">>) /\ d[b + 8].t = "str"
    /\ d[b + 9] = Close

\* the entries of a document, a later entry of a key replacing an earlier one
RECURSIVE ParseEntries(_, _, _)
ParseEntries(d, i, n) ==
    IF i > n THEN <<>>
    ELSE LET b == HeadLen + (i - 1) * EntryLen
             rest == ParseEntries(d, i + 1, n)
         IN  IF d[b + 1].s \in DOMAIN rest THEN rest
             ELSE MapInsert(rest, d[b + 1].s, EntryAt(d, b))

\* serde_json::from_reader::<VyperFilesCache>: [ok, cache]. The format tag is
\* read as any string; nothing compares it with FORMAT_VERSION.
ParseDoc(d) ==
    LET n == (Len(d) - HeadLen - TailLen) \div EntryLen
        wellFormed ==
            /\ Len(d) >= HeadLen + TailLen
            /\ Len(d) = HeadLen + n * EntryLen + TailLen
            /\ d[1] = Open
            /\ d[2] = Key(<<"_format">>) /\ d[3].t = "str"
            /\ d[4] = Key(<<"files">>) /\ d[5] = Open
            /\ \A i \in 1..n : EntryWellFormed(d, HeadLen + (i - 1) * EntryLen)
            /\ d[Len(d) - 1] = Close /\ d[Len(d)] = Close
    IN  IF wellFormed
        THEN [ok |-> TRUE,
              cache |-> [format |-> d[3].s, files |-> ParseEntries(d, 1, n)]]
        ELSE [ok |-> FALSE, cache |-> VyperFilesCacheNew]

\* read_json_file / VyperFilesCache::read(path): [ok, cache]
CacheRead(f) ==
    IF f.exists THEN ParseDoc(f.content)
    ELSE [ok |-> FALSE, cache |-> VyperFilesCacheNew]

\* VyperFilesCache::get that falls back to a cache without a format tag
CacheGetDefault(f) ==
    IF CacheRead(f).ok THEN CacheRead(f).cache
    ELSE [format |-> <<>>, files |-> <<>>]

\* VyperFilesCache::get(): the cache read, or a new one when reading fails
CacheGet(f) ==
    IF CacheRead(f).ok THEN CacheRead(f).cache ELSE VyperFilesCacheNew

\* VyperFilesCache::write that writes the entries without the format tag
CacheWriteNoTag(c) ==
    [exists |-> TRUE, content |-> Serialize([c EXCEPT !.format = <<>>])]

\* VyperFilesCache::write(path): the cache file after File::create and
\* serde_json::to_writer_pretty
CacheWrite(c) == [exists |-> TRUE, content |-> Serialize(c)]

(***************************************************************************)
(* The cache operations, called one at a time, and what happens to the     *)
(* files around them.                                                      *)
(***************************************************************************)
COp(op, path, ok, flag) ==
    [op |-> op, path |-> path, ok |-> ok, flag |-> flag]

NoPath == <<>>

\* a call of the library: the operation, its version, whether it succeeded,
\* and (install) whether the version was not installed before
ROp(op, v, ok, fresh) ==
    [op |-> op, v |-> v, ok |-> ok, fresh |-> fresh,
     err |-> [kind |-> "none", url |-> <<>>, status |-> 0], sent |-> FALSE]

\* a call of the library that returned Err(err); sent: it had sent the
\* request for the artifact
RErr(op, v, err, sent) ==
    [ROp(op, v, FALSE, FALSE) EXCEPT !.err = err, !.sent = sent]

\* the version of a call that has none
NoVer == Ver(0, 0, 0)

\* how a wrapper invocation ended, and what it printed
WRes(how, out) == [how |-> how, out |-> out]

\* the toolchain process: the arguments it was started with, how it exits and
\* what it writes to stdout
Child(how, out, args) == [how |-> how, out |-> out, args |-> args]

\* a process whose persist was interrupted is gone: the next one starts by
\* loading the cache
Alive == clast.op /= "cut"

\* let mut cache = VyperFilesCache::get()
Get ==
    /\ cache' = CacheGet(cacheDoc)
    /\ clast' = COp("get", NoPath, TRUE, FALSE)
    /\ UNCHANGED <<src, cacheDoc, persisted, fsVars, instVars, regVars, wrapVars>>

\* cache.add_entry(file, bytecode); flag: the path had an entry
AddEntry(path, out) ==
    /\ Alive
    /\ cache' = add_entry(cache, path, out).cache
    /\ clast' = COp("add", path, add_entry(cache, path, out).ok,
                    path \in DOMAIN cache.files)
    /\ UNCHANGED <<src, cacheDoc, persisted, fsVars, instVars, regVars, wrapVars>>

\* cache.write(get_cache_path()): create_parent_dir_all, File::create and the
\* whole document written
Write ==
    /\ Alive
    /\ cacheDir' = TRUE
    /\ cacheDoc' = CacheWrite(cache)
    /\ persisted' = {cache}
    /\ clast' = COp("write", NoPath, TRUE, FALSE)
    /\ UNCHANGED <<src, cache, ptr, vdir, lockIno, instVars, regVars, wrapVars>>

\* the wrapper's persist, seen as one of the operations on VVM_HOME: main
\* calls setup_home() and, after a compile, cache.write(get_cache_path())
CachePersist ==
    /\ ptr' = setup_home(ptr)
    /\ cacheDir' = TRUE
    /\ cacheDoc' = CacheWrite(cache)
    /\ persisted' = {cache}
    /\ last' = ROp("persist", NoVer, TRUE, FALSE)
    /\ UNCHANGED <<src, cache, clast, vdir, lockIno, lastPtr, instVars, wrapVars>>

\* where an interrupted write stops: after File::create, inside the first
\* entry (or the closing braces), before the last token
CutPoints(d) == {0, HeadLen + 1, Len(d) - 1}

\* cache.write(get_cache_path()) interrupted after File::create and the
\* first k tokens of the document
WriteCut(k) ==
    /\ Alive
    /\ k \in CutPoints(Serialize(cache))
    /\ cacheDir' = TRUE
    /\ cacheDoc' = [exists |-> TRUE, content |-> SubSeq(Serialize(cache), 1, k)]
    /\ persisted' = {}
    /\ clast' = COp("cut", NoPath, FALSE, FALSE)
    /\ UNCHANGED <<src, cache, ptr, vdir, lockIno, instVars, regVars, wrapVars>>

\* a cache document in another format is put at the cache path
ForeignWrite(c, out) ==
    /\ cacheDir' = TRUE
    /\ cacheDoc' =
         CacheWrite([format |-> OtherFormat,
                     files |-> MapInsert(<<>>, PathList[1],
                                  CacheEntry(HexEncode(Md5(c), DigestBytes),
                                             PathList[1], out))])
    /\ persisted' = {}
    /\ clast' = COp(IF Alive THEN "foreign" ELSE "cut", NoPath, TRUE, FALSE)
    /\ UNCHANGED <<src, cache, ptr, vdir, lockIno, instVars, regVars, wrapVars>>

\* the user edits or creates a source file; flag: the cache held a fresh
\* entry of the file before
SrcModify(path, c) ==
    /\ Alive
    /\ src[path] /= [exists |-> TRUE, content |-> c]
    /\ src' = [src EXCEPT ![path] = [exists |-> TRUE, content |-> c]]
    /\ clast' = COp("modify", path, TRUE,
                    path \in DOMAIN cache.files /\ ~is_dirty(cache.files[path]))
    /\ UNCHANGED <<cacheDoc, cache, persisted, fsVars, instVars, regVars, wrapVars>>

\* the user deletes a source file
SrcDelete(path) ==
    /\ Alive
    /\ src[path].exists
    /\ src' = [src EXCEPT ![path] = NoFile]
    /\ clast' = COp("delete", path, TRUE,
                    path \in DOMAIN cache.files /\ ~is_dirty(cache.files[path]))
    /\ UNCHANGED <<cacheDoc, cache, persisted, fsVars, instVars, regVars, wrapVars>>

InitCacheVars ==
    /\ src = [p \in Paths |-> NoFile]
    /\ cacheDoc = NoFile
    /\ cache = VyperFilesCacheNew
    /\ clast = COp("init", NoPath, TRUE, FALSE)
    /\ persisted = {}

(***************************************************************************)
(* The version registry of src/src/lib.rs: reads of VVM_HOME.              *)
(***************************************************************************)
\* VVM_HOME exists once anything was created in it
HomeExists ==
    \/ ptr.exists
    \/ cacheDir
    \/ \E v \in CatalogVersions :
          vdir[version_path(v)].exists \/ lockIno[lock_file_path(v)] /= 0

\* fs::read_dir(&home_dir): the names of the entries of VVM_HOME
RootEntries ==
    (IF ptr.exists THEN {global_version_path} ELSE {})
        \cup {version_path(v) :
                 v \in {w \in CatalogVersions : vdir[version_path(w)].exists}}
        \cup {lock_file_path(v) :
                 v \in {w \in CatalogVersions : lockIno[lock_file_path(w)] /= 0}}
        \cup (IF cacheDir THEN {cache_dir_name} ELSE {})

\* str::replace("vyper-", "")
StripVyper(name) == SelectSeq(name, LAMBDA t : t /= "vyper-")

RECURSIVE SetToSeq(_)
SetToSeq(S) ==
    IF S = {} THEN <<>>
    ELSE LET x == CHOOSE y \in S : TRUE IN <<x>> \o SetToSeq(S \ {x})

SeqToSet(q) == {q[i] : i \in 1..Len(q)}

\* From<semver::Error> for VyperVmError: the variant a version that does not
\* parse is reported as
FromSemverError == "UnknownVersion"

\* installed_versions that skips the entries that do not parse
installed_versions_best_effort ==
    LET names == RootEntries \ {global_version_path}
        parsed == {ParseVersion(StripVyper(n)) : n \in names}
    IN  IF ~HomeExists THEN [err |-> "io", val |-> <<>>]
        ELSE [err |-> "none",
              val |-> SortSeq(SetToSeq(UNION parsed), VersionLess)]

\* installed_versions(): [err, val]; every entry but .global-version is
\* parsed as a version, one that does not parse fails the call, and the
\* versions are sorted
installed_versions ==
    LET names == RootEntries \ {global_version_path}
        parsed == {ParseVersion(StripVyper(n)) : n \in names}
    IN  IF ~HomeExists THEN [err |-> "io", val |-> <<>>]
        ELSE IF {} \in parsed THEN [err |-> FromSemverError, val |-> <<>>]
        ELSE [err |-> "none",
              val |-> SortSeq(SetToSeq(UNION parsed), VersionLess)]

\* str::trim_end_matches('\n')
RECURSIVE TrimEndNewlines(_)
TrimEndNewlines(t) ==
    IF t /= <<>> /\ t[Len(t)] = "\n"
    THEN TrimEndNewlines(SubSeq(t, 1, Len(t) - 1))
    ELSE t

\* current_version that returns the error of a text that does not parse
current_version_strict ==
    IF ~ptr.exists THEN [err |-> "io", val |-> {}]
    ELSE IF ParseVersion(TrimEndNewlines(ptr.content)) = {}
    THEN [err |-> FromSemverError, val |-> {}]
    ELSE [err |-> "none", val |-> ParseVersion(TrimEndNewlines(ptr.content))]

\* current_version(): [err, val], val the optional version
current_version ==
    IF ~ptr.exists THEN [err |-> "io", val |-> {}]
    ELSE [err |-> "none", val |-> ParseVersion(TrimEndNewlines(ptr.content))]

\* write_all(bytes) through a descriptor at position 0
WriteAll(c, bytes) == bytes \o SubSeq(c, Len(bytes) + 1, Len(c))

\* use_version with the pointer file opened without truncation
use_version_no_truncate(f, v) ==
    [exists |-> TRUE, content |-> WriteAll(f.content, VersionToString(v))]

\* use_version(version): File::create and write_all of version.to_string()
use_version(f, v) ==
    [exists |-> TRUE,
     content |-> WriteAll(TruncateFile(f).content, VersionToString(v))]

\* unset_global_version(): File::create and write_all of ""
unset_global_version(f) ==
    [exists |-> TRUE, content |-> WriteAll(TruncateFile(f).content, <<>>)]

\* std::io::copy(&mut content, &mut f), to its end
RECURSIVE CopyAll(_, _, _, _)
CopyAll(d, name, bytes, o) ==
    IF o >= Len(bytes) THEN d
    ELSE CopyAll(WriteIn(d, name, o, bytes[o + 1]), name, bytes, o + 1)

\* Installer::install(): create, set_permissions, copy
InstallerInstall(d, v) ==
    CopyAll(SetMode(CreateIn(d, vyper_name(v)), vyper_name(v)),
            vyper_name(v), Payload(v), 0)

\* do_install(version, binbytes, artifact)
do_install(d, v) == InstallerInstall(setup_version(d), v)

\* the owner, group and others may execute
IsExecutable(mode) ==
    /\ (mode \div 64) % 2 = 1
    /\ (mode \div 8) % 2 = 1
    /\ mode % 2 = 1

(***************************************************************************)
(* The release catalog and the download (src/src/releases.rs, and install  *)
(* up to the lock in src/src/lib.rs).                                      *)
(***************************************************************************)
\* VyperVmError values: [kind, url, status]
ErrorOf(kind) == [kind |-> kind, url |-> <<>>, status |-> 0]
IoError == ErrorOf("IoError")
UnknownVersion == ErrorOf("UnknownVersion")
ReqwestError == ErrorOf("ReqwestError")
UnsuccessfulResponse(url, status) ==
    [kind |-> "UnsuccessfulResponse", url |-> url, status |-> status]

\* Display for Platform
PlatformToString(pf) ==
    CASE pf = "Linux" -> "linux"
      [] pf = "MacOs" -> "darwin"
      [] pf = "Windows" -> "windows"
      [] OTHER -> "Unsupported-platform"

\* platform(): the platform of (env::consts::OS, env::consts::ARCH)
platform(os, arch) ==
    CASE os = "linux" /\ arch \in {"x86_64", "aarch64"} -> "Linux"
      [] os = "macos" /\ arch \in {"x86_64", "aarch64"} -> "MacOs"
      [] os = "windows" /\ arch = "x86_64" -> "Windows"
      [] OTHER -> "Unsupported"

\* the machine the model runs install on
HostPlatform == platform("linux", "x86_64")

\* an asset name of a release: "vyper.<version>+commit.<hash>.<platform>"
AssetName(v, build, token) ==
    <<"vyper", ".">> \o VersionToString(v)
        \o <<"+", "commit", ".", build, ".", token>>

\* a release object of the listing: its tag "v<version>" and its assets
Release(v, assets) == [tag_name |-> <<"v">> \o VersionToString(v), assets |-> assets]

\* the answers of the release listing: every version with a linux asset
\* (0.3.3 with two of them); 0.3.10 without a linux asset; and the request
\* failing
ListingFull ==
    [err |-> FALSE,
     body |-> << Release(Ver(0, 3, 3),
                    << AssetName(Ver(0, 3, 3), "48e326f0", "linux"),
                       AssetName(Ver(0, 3, 3), "48e326f0", "darwin"),
                       AssetName(Ver(0, 3, 3), "48e326f1", "linux") >>),
                 Release(Ver(0, 3, 10),
                    << AssetName(Ver(0, 3, 10), "91361694", "darwin"),
                       AssetName(Ver(0, 3, 10), "91361694", "linux") >>),
                 Release(Ver(0, 3, 7),
                    << AssetName(Ver(0, 3, 7), "6020b8bb", "linux") >>) >>]
ListingNoLinux ==
    [err |-> FALSE,
     body |-> << Release(Ver(0, 3, 3),
                    << AssetName(Ver(0, 3, 3), "48e326f0", "linux") >>),
                 Release(Ver(0, 3, 10),
                    << AssetName(Ver(0, 3, 10), "91361694", "darwin") >>) >>]
ListingDown == [err |-> TRUE, body |-> <<>>]
Listings == {ListingFull, ListingNoLinux, ListingDown}

\* str::contains(platform_str) on an asset name
Contains(name, token) == \E i \in 1..Len(name) : name[i] = token

\* str::trim_start_matches('v')
RECURSIVE TrimStartV(_)
TrimStartV(t) ==
    IF t /= <<>> /\ t[1] = "v" THEN TrimStartV(SubSeq(t, 2, Len(t))) ELSE t

\* str::trim_start_matches("v"), the pattern a string
RECURSIVE TrimStartStr(_, _)
TrimStartStr(t, pat) ==
    IF pat /= <<>> /\ Len(t) >= Len(pat) /\ SubSeq(t, 1, Len(pat)) = pat
    THEN TrimStartStr(SubSeq(t, Len(pat) + 1, Len(t)), pat)
    ELSE t

\* the (parsed tag, asset name) pairs all_releases reaches, in iteration
\* order: one for every asset whose name contains the platform's token, the
\* tag parsed by Version::parse(tag_name.trim_start_matches('v'))
RECURSIVE Inserts(_, _)
Inserts(body, token) ==
    IF body = <<>> THEN <<>>
    ELSE LET r == body[1]
             v == ParseVersion(TrimStartV(r.tag_name))
             names == SelectSeq(r.assets, LAMBDA n : Contains(n, token))
         IN  [i \in 1..Len(names) |-> <<v, names[i]>>]
                 \o Inserts(SubSeq(body, 2, Len(body)), token)

\* the same pairs for blocking_all_releases, which trims with the pattern "v"
RECURSIVE BlockingInserts(_, _)
BlockingInserts(body, token) ==
    IF body = <<>> THEN <<>>
    ELSE LET r == body[1]
             v == ParseVersion(TrimStartStr(r.tag_name, <<"v">>))
             names == SelectSeq(r.assets, LAMBDA n : Contains(n, token))
         IN  [i \in 1..Len(names) |-> <<v, names[i]>>]
                 \o BlockingInserts(SubSeq(body, 2, Len(body)), token)

\* BTreeMap::insert, applied in order: a later pair replaces an earlier one
RECURSIVE InsertAll(_, _)
InsertAll(m, pairs) ==
    IF pairs = <<>> THEN m
    ELSE InsertAll([k \in (DOMAIN m) \cup {pairs[1][1]} |->
                        IF k = pairs[1][1] THEN pairs[1][2] ELSE m[k]],
                   SubSeq(pairs, 2, Len(pairs)))

\* the map built from the pairs: [err, panic, releases]; `.unwrap()` panics
\* on a pair whose tag did not parse
Built(pairs) ==
    IF \E i \in 1..Len(pairs) : pairs[i][1] = {}
    THEN [err |-> FALSE, panic |-> TRUE, releases |-> <<>>]
    ELSE [err |-> FALSE, panic |-> FALSE,
          releases |-> InsertAll(<<>>,
              [i \in 1..Len(pairs) |->
                  <<CHOOSE v \in pairs[i][1] : TRUE, pairs[i][2]>>])]

\* all_releases(platform): [err, panic, releases], releases the map from
\* versions to the name of their asset for the platform
all_releases(listing, pf) ==
    IF listing.err THEN [err |-> TRUE, panic |-> FALSE, releases |-> <<>>]
    ELSE Built(Inserts(listing.body, PlatformToString(pf)))

\* blocking_all_releases(platform)
blocking_all_releases(listing, pf) ==
    IF listing.err THEN [err |-> TRUE, panic |-> FALSE, releases |-> <<>>]
    ELSE Built(BlockingInserts(listing.body, PlatformToString(pf)))

\* what Url::parse does to a character of the path: of the characters the
\* model writes it percent-encodes the space; '+' and '%' stay as they are
PercentEncodePath(c) == IF c = " " THEN "%20" ELSE c

\* Url::parse of base followed by a path, as the URL is written out
UrlParse(base, path) ==
    base \o [i \in 1..Len(path) |-> PercentEncodePath(path[i])]

\* artifact_url(platform, version, artifact): Url::parse of
\* format!("https://github.com/vyperlang/vyper/releases/download/v{}/{}")
artifact_url(v, artifact) ==
    UrlParse(<<"https://github.com/vyperlang/vyper/releases/download/v">>,
             VersionToString(v) \o <<"/">> \o artifact)

\* the answers to the download request: a status, or the request failing
StatusOk == 200
StatusNotFound == 404
Resp(status) == [err |-> FALSE, status |-> status]
RespDown == [err |-> TRUE, status |-> 0]
Responses == {Resp(StatusOk), Resp(StatusNotFound), RespDown}

\* StatusCode::is_success
is_success(status) == status \div 100 = 2

\* a download that takes any answered request for a success
download_any_status(v, listing, resp) ==
    LET rel == all_releases(listing, HostPlatform) IN
    IF rel.err THEN [ok |-> FALSE, err |-> ReqwestError, requested |-> FALSE]
    ELSE IF v \notin DOMAIN rel.releases
    THEN [ok |-> FALSE, err |-> UnknownVersion, requested |-> FALSE]
    ELSE IF resp.err
    THEN [ok |-> FALSE, err |-> ReqwestError, requested |-> TRUE]
    ELSE [ok |-> TRUE, err |-> ErrorOf("none"), requested |-> TRUE]

\* a download that asks for the artifact before it looks the version up
download_request_first(v, listing, resp) ==
    LET rel == all_releases(listing, HostPlatform) IN
    IF rel.err THEN [ok |-> FALSE, err |-> ReqwestError, requested |-> FALSE]
    ELSE IF v \notin DOMAIN rel.releases
    THEN [ok |-> FALSE, err |-> UnknownVersion, requested |-> TRUE]
    ELSE IF resp.err
    THEN [ok |-> FALSE, err |-> ReqwestError, requested |-> TRUE]
    ELSE IF ~is_success(resp.status)
    THEN [ok |-> FALSE, requested |-> TRUE,
          err |-> UnsuccessfulResponse(
                      artifact_url(v, rel.releases[v]), resp.status)]
    ELSE [ok |-> TRUE, err |-> ErrorOf("none"), requested |-> TRUE]

\* install from the listing to `res.bytes()`: [ok, err, requested], requested
\* telling whether the download request was sent
download(v, listing, resp) ==
    LET rel == all_releases(listing, HostPlatform) IN
    IF rel.err THEN [ok |-> FALSE, err |-> ReqwestError, requested |-> FALSE]
    ELSE IF rel.panic
    THEN [ok |-> FALSE, err |-> ErrorOf("panic"), requested |-> FALSE]
    ELSE IF v \notin DOMAIN rel.releases
    THEN [ok |-> FALSE, err |-> UnknownVersion, requested |-> FALSE]
    ELSE IF resp.err
    THEN [ok |-> FALSE, err |-> ReqwestError, requested |-> TRUE]
    ELSE IF ~is_success(resp.status)
    THEN [ok |-> FALSE, requested |-> TRUE,
          err |-> UnsuccessfulResponse(
                      artifact_url(v, rel.releases[v]), resp.status)]
    ELSE [ok |-> TRUE, err |-> ErrorOf("none"), requested |-> TRUE]

(***************************************************************************)
(* The catalog functions called on their own, on any listing the release   *)
(* API may answer with.                                                    *)
(***************************************************************************)
\* releases in a listing of the model
MaxReleases == 2

\* the values of Platform
Platforms == {"Linux", "MacOs", "Windows", "Unsupported"}

\* tags of releases: "v0.3.3", "v0.3.10", and the release candidate
\* "v0.3.10rc1", which is not a semver version
CatalogTags ==
    { <<"v">> \o VersionToString(Ver(0, 3, 3)),
      <<"v">> \o VersionToString(Ver(0, 3, 10)),
      <<"v">> \o VersionToString(Ver(0, 3, 10)) \o <<"rc1">> }

\* the asset lists of a release: none, one or two of a linux build, a later
\* linux build and a darwin build
CatalogAssets ==
    LET names == { AssetName(Ver(0, 3, 3), "48e326f0", "linux"),
                   AssetName(Ver(0, 3, 3), "48e326f1", "linux"),
                   AssetName(Ver(0, 3, 3), "48e326f0", "darwin") }
    IN  {<<>>} \cup {<<a>> : a \in names} \cup {<<a, b>> : a \in names, b \in names}

CatalogReleases ==
    {[tag_name |-> t, assets |-> a] : t \in CatalogTags, a \in CatalogAssets}

\* the bodies the release API answers with
CatalogListings ==
    {[err |-> FALSE, body |-> b] :
        b \in UNION {[1..n -> CatalogReleases] : n \in 0..MaxReleases}}

\* the artifact names given to artifact_url: asset names as the listing has
\* them, one already percent-encoded, one with a space
Artifacts ==
    { AssetName(Ver(0, 3, 3), "48e326f0", "darwin"),
      AssetName(Ver(0, 3, 10), "91361694", "linux"),
      <<"vyper", ".">> \o VersionToString(Ver(0, 3, 3))
          \o <<"%2B", "commit", ".", "48e326f0", ".", "darwin">>,
      <<"vyper", " ", "nightly">> }

\* the calls of the catalog functions; "input" is the call not made yet
CatalogOps == {"input", "all_releases", "blocking_all_releases", "artifact_url"}

\* a call of a catalog function: its inputs and what it returned
Called(op, listing, pf, v, artifact, res) ==
    [op |-> op, listing |-> listing, pf |-> pf, v |-> v, artifact |-> artifact,
     res |-> res]

\* all_releases(platform) on the listing the API answers with
AllReleases(listing, pf) ==
    /\ last.op \in CatalogOps /\ last.listing = listing /\ last.pf = pf
    /\ last' = Called("all_releases", listing, pf, last.v, last.artifact,
                      all_releases(listing, pf))
    /\ UNCHANGED <<fsVars, instVars, cacheVars, lastPtr, wrapVars>>

\* blocking_all_releases(platform)
BlockingAllReleases(listing, pf) ==
    /\ last.op \in CatalogOps /\ last.listing = listing /\ last.pf = pf
    /\ last' = Called("blocking_all_releases", listing, pf, last.v, last.artifact,
                      blocking_all_releases(listing, pf))
    /\ UNCHANGED <<fsVars, instVars, cacheVars, lastPtr, wrapVars>>

\* artifact_url(platform, version, artifact)
ArtifactUrl(pf, v, artifact) ==
    /\ last.op \in CatalogOps /\ last.pf = pf /\ last.v = v
    /\ last.artifact = artifact
    /\ last' = Called("artifact_url", last.listing, pf, v, artifact,
                      artifact_url(v, artifact))
    /\ UNCHANGED <<fsVars, instVars, cacheVars, lastPtr, wrapVars>>

(***************************************************************************)
(* The library's public operations, called one at a time.                  *)
(***************************************************************************)
\* install(version), alone, given the answers of the network: when the
\* download succeeds the lock file is created, locked, and removed when the
\* lock is dropped
InstallWith(v, listing, resp) ==
    /\ ptr' = setup_home(ptr)
    /\ IF download(v, listing, resp).ok
       THEN /\ vdir' = [vdir EXCEPT ![version_path(v)] = do_install(@, v)]
            /\ lockIno' = [lockIno EXCEPT ![lock_file_path(v)] = 0]
            /\ last' = ROp("install", v, TRUE, ~vdir[version_path(v)].exists)
       ELSE /\ last' = RErr("install", v, download(v, listing, resp).err,
                            download(v, listing, resp).requested)
            /\ UNCHANGED <<vdir, lockIno>>
    /\ UNCHANGED <<cacheDir, lastPtr, instVars, cacheVars, wrapVars>>

\* install() of a concurrent caller up to `let binbytes = res.bytes().await?`,
\* given the answers of the network: it goes on to the lock, or returns the
\* error
FetchWith(p, v, listing, resp) ==
    /\ pc[p] = "idle"
    /\ ver' = [ver EXCEPT ![p] = v]
    /\ ptr' = setup_home(ptr)
    /\ IF download(v, listing, resp).ok
       THEN /\ pc' = [pc EXCEPT ![p] = "fetched"]
            /\ UNCHANGED last
       ELSE /\ pc' = [pc EXCEPT ![p] = "failed"]
            /\ last' = RErr("install", v, download(v, listing, resp).err,
                            download(v, listing, resp).requested)
    /\ UNCHANGED <<vdir, lockIno, cacheDir, lockFd, holder, nextIno, off, raced, creator,
                   cacheVars, lastPtr, wrapVars>>

\* the same, whatever the network answers
Fetch(p, v) ==
    \E listing \in Listings, resp \in Responses : FetchWith(p, v, listing, resp)

\* a failing system call in do_install whose error leaks the lock
\* (as after mem::forget): install returns without the drop
IoFailNoDrop(p) ==
    /\ pc[p] \in {"locked", "dir", "created", "copy"}
    /\ pc[p] = "copy" => ~CopyDone(p)
    /\ pc' = [pc EXCEPT ![p] = "failedIo"]
    /\ UNCHANGED <<fsVars, ver, lockFd, holder, nextIno, off, raced, creator,
                   cacheVars, regVars, wrapVars>>

\* a system call of do_install fails: setup_version, File::create,
\* set_permissions or a write of io::copy; install returns the error, which
\* drops the lock
IoFail(p) ==
    /\ pc[p] \in {"locked", "dir", "created", "copy"}
    /\ pc[p] = "copy" => ~CopyDone(p)
    /\ pc' = [pc EXCEPT ![p] = "failing"]
    /\ UNCHANGED <<fsVars, ver, lockFd, holder, nextIno, off, raced, creator,
                   cacheVars, regVars, wrapVars>>

\* install(version), whatever the network answers
Install(v) == \E listing \in Listings, resp \in Responses : InstallWith(v, listing, resp)

\* remove_version that also clears a pointer naming the removed version
RemoveVersionCascade(v) ==
    /\ IF vdir[version_path(v)].exists
       THEN /\ vdir' = [vdir EXCEPT ![version_path(v)] = NoDir]
            /\ ptr' = IF current_version.val = {v}
                      THEN unset_global_version(ptr) ELSE ptr
            /\ last' = ROp("remove", v, TRUE, FALSE)
       ELSE /\ last' = RErr("remove", v, IoError, FALSE)
            /\ UNCHANGED <<vdir, ptr>>
    /\ UNCHANGED <<lockIno, cacheDir, lastPtr, instVars, cacheVars, wrapVars>>

\* remove_version(version): fs::remove_dir_all(version_path(..))
RemoveVersion(v) ==
    /\ IF vdir[version_path(v)].exists
       THEN /\ vdir' = [vdir EXCEPT ![version_path(v)] = NoDir]
            /\ last' = ROp("remove", v, TRUE, FALSE)
       ELSE /\ last' = RErr("remove", v, IoError, FALSE)
            /\ UNCHANGED vdir
    /\ UNCHANGED <<ptr, lockIno, cacheDir, lastPtr, instVars, cacheVars, wrapVars>>

\* use_version(version)
UseVersion(v) ==
    /\ ptr' = use_version(ptr, v)
    /\ lastPtr' = [op |-> "set", v |-> v]
    /\ last' = ROp("use", v, TRUE, FALSE)
    /\ UNCHANGED <<vdir, lockIno, cacheDir, instVars, cacheVars, wrapVars>>

\* the texts a user may leave in .global-version with an editor
PtrTexts ==
    { <<"0", ".", "3">>,
      VersionToString(Ver(0, 3, 3)) \o <<"\n">>,
      <<"l", "a", "t", "e", "s", "t", "\n">> }

\* the user writes .global-version by hand
PointerEdit(text) ==
    /\ HomeExists
    /\ ptr' = [exists |-> TRUE, content |-> text]
    /\ lastPtr' = [op |-> "edit", v |-> NoVer]
    /\ last' = ROp("edit", NoVer, TRUE, FALSE)
    /\ UNCHANGED <<vdir, lockIno, cacheDir, instVars, cacheVars, wrapVars>>

\* unset_global_version()
UnsetGlobalVersion ==
    /\ ptr' = unset_global_version(ptr)
    /\ lastPtr' = [op |-> "unset", v |-> NoVer]
    /\ last' = ROp("unset", NoVer, TRUE, FALSE)
    /\ UNCHANGED <<vdir, lockIno, cacheDir, instVars, cacheVars, wrapVars>>

(***************************************************************************)
(* use_version(version) run by concurrent callers, one step per system     *)
(* call: pc is idle, ptrOpen (after File::create) and ptrDone; off is the  *)
(* position of the caller's descriptor on .global-version.                 *)
(***************************************************************************)
\* use_version: fs::File::create(global_version_path()), which truncates
\* the file and opens a descriptor at position 0
UseCreate(p, v) ==
    /\ pc[p] = "idle"
    /\ pc' = [pc EXCEPT ![p] = "ptrOpen"]
    /\ ver' = [ver EXCEPT ![p] = v]
    /\ off' = [off EXCEPT ![p] = 0]
    /\ ptr' = TruncateFile(ptr)
    /\ UNCHANGED <<vdir, lockIno, cacheDir, lockFd, holder, nextIno, raced, creator,
                   cacheVars, regVars, wrapVars>>

\* use_version: v.write_all(version.to_string().as_bytes()) at the position
\* of the caller's descriptor, over what the file holds by then; the
\* descriptor is closed on return
UseWrite(p) ==
    /\ pc[p] = "ptrOpen"
    /\ pc' = [pc EXCEPT ![p] = "ptrDone"]
    /\ ptr' = [exists |-> TRUE,
               content |-> WriteAll(ptr.content, VersionToString(ver[p]))]
    /\ off' = [off EXCEPT ![p] = @ + Len(VersionToString(ver[p]))]
    /\ UNCHANGED <<vdir, lockIno, cacheDir, ver, lockFd, holder, nextIno, raced, creator,
                   cacheVars, regVars, wrapVars>>

(***************************************************************************)
(* The command line vvm (src/src/vvm/main.rs), one command at a time. main *)
(* calls setup_home() before the command: .global-version exists when the  *)
(* handlers read it, empty if it was missing, so that current_version()?   *)
(* is Ok with the value current_version.val has before setup_home, and     *)
(* installed_versions().unwrap_or_default() is installed_versions.val.     *)
(* A handler yields what it leaves in VVM_HOME: [ptr, vdir, ok].           *)
(***************************************************************************)
\* the texts typed at a prompt of dialoguer::Input
Inputs == {"Y", "N"}

\* matches!(input.as_str(), "y" | "Y" | "yes" | "Yes")
Confirmed(input) == input \in {"y", "Y", "yes", "Yes"}

Left(p, d, ok) == [ptr |-> p, vdir |-> d, ok |-> ok]

\* all_versions(): [err, val], the versions of all_releases(platform()),
\* sorted
all_versions(listing) ==
    LET rel == all_releases(listing, HostPlatform) IN
    IF rel.err \/ rel.panic THEN [err |-> TRUE, val |-> <<>>]
    ELSE [err |-> FALSE,
          val |-> SortSeq(SetToSeq(DOMAIN rel.releases), VersionLess)]

\* Vec::remove(i) for i the position of the first x
RECURSIVE RemoveFirst(_, _)
RemoveFirst(q, x) ==
    IF q = <<>> THEN q
    ELSE IF q[1] = x THEN SubSeq(q, 2, Len(q))
    ELSE <<q[1]>> \o RemoveFirst(SubSeq(q, 2, Len(q)), x)

\* handle_install(version); listing answers all_versions(), dl and resp
\* answer the requests of install()
handle_install(v, input, listing, dl, resp) ==
    LET home == setup_home(ptr)
        all == all_versions(listing)
        installed == SeqToSet(installed_versions.val)
        current == current_version.val
        dirs == [vdir EXCEPT ![version_path(v)] = do_install(@, v)]
    IN  IF all.err THEN Left(home, vdir, FALSE)
        ELSE IF v \in installed
        THEN IF Confirmed(input) THEN Left(use_version(home, v), vdir, TRUE)
             ELSE Left(home, vdir, TRUE)
        ELSE IF v \in SeqToSet(all.val)
        THEN IF ~download(v, dl, resp).ok THEN Left(home, vdir, FALSE)
             ELSE IF current = {} THEN Left(use_version(home, v), dirs, TRUE)
             ELSE Left(home, dirs, TRUE)
        ELSE Left(home, vdir, TRUE)

\* handle_use(version); input answers "Would you like to install it?", and
\* the other arguments are those of the handle_install it then calls
handle_use(v, input, input2, listing, listing2, dl, resp) ==
    LET home == setup_home(ptr)
        all == all_versions(listing)
        installed == SeqToSet(installed_versions.val)
    IN  IF all.err THEN Left(home, vdir, FALSE)
        ELSE IF v \in installed THEN Left(use_version(home, v), vdir, TRUE)
        ELSE IF v \in SeqToSet(all.val)
        THEN IF Confirmed(input)
             THEN handle_install(v, input2, listing2, dl, resp)
             ELSE Left(home, vdir, TRUE)
        ELSE Left(home, vdir, TRUE)

\* handle_remove that repoints to the first of the remaining versions
handle_remove_first(v, input) ==
    LET home == setup_home(ptr)
        installed == installed_versions.val
        current == current_version.val
        dirs == [vdir EXCEPT ![version_path(v)] = NoDir]
        rest == RemoveFirst(installed, v)
    IN  IF v \in SeqToSet(installed) /\ Confirmed(input)
        THEN IF current = {v}
             THEN IF rest /= <<>>
                  THEN Left(use_version(home, rest[1]), dirs, TRUE)
                  ELSE Left(unset_global_version(home), dirs, TRUE)
             ELSE Left(home, dirs, TRUE)
        ELSE Left(home, vdir, TRUE)

\* handle_remove(version): after "Are you sure?", remove_version, and when
\* the version was the current one, use_version of the last of the other
\* installed versions, or unset_global_version when there is none
handle_remove(v, input) ==
    LET home == setup_home(ptr)
        installed == installed_versions.val
        current == current_version.val
        dirs == [vdir EXCEPT ![version_path(v)] = NoDir]
        rest == RemoveFirst(installed, v)
    IN  IF v \in SeqToSet(installed) /\ Confirmed(input)
        THEN IF current = {v}
             THEN IF rest /= <<>>
                  THEN Left(use_version(home, rest[Len(rest)]), dirs, TRUE)
                  ELSE Left(unset_global_version(home), dirs, TRUE)
             ELSE Left(home, dirs, TRUE)
        ELSE Left(home, vdir, TRUE)

\* `vvm remove all` that leaves the pointer as it is
remove_all_keep_pointer ==
    LET installed == SeqToSet(installed_versions.val) IN
    Left(setup_home(ptr),
         [d \in DOMAIN vdir |->
             IF \E v \in installed : d = version_path(v) THEN NoDir ELSE vdir[d]],
         TRUE)

\* `vvm remove all`: remove_version of every installed version, then
\* unset_global_version
remove_all ==
    LET installed == SeqToSet(installed_versions.val) IN
    Left(unset_global_version(setup_home(ptr)),
         [d \in DOMAIN vdir |->
             IF \E v \in installed : d = version_path(v) THEN NoDir ELSE vdir[d]],
         TRUE)

\* a command has run and left `left`; the call recorded tells whether it
\* changed the content of .global-version
Ran(op, v, left) ==
    /\ ptr' = left.ptr
    /\ vdir' = left.vdir
    /\ last' = ROp(op, v, left.ok, left.ptr.content /= ptr.content)
    /\ UNCHANGED <<lockIno, cacheDir, lastPtr, instVars, cacheVars, wrapVars>>

\* vvm install <version>
CliInstall(v, input, listing, dl, resp) ==
    Ran("vvm install", v, handle_install(v, input, listing, dl, resp))

\* vvm use <version>
CliUse(v, input, input2, listing, listing2, dl, resp) ==
    Ran("vvm use", v, handle_use(v, input, input2, listing, listing2, dl, resp))

\* vvm remove <version>
CliRemove(v, input) == Ran("vvm remove", v, handle_remove(v, input))

\* vvm remove all
CliRemoveAll == Ran("vvm remove all", NoVer, remove_all)

\* vvm list: handle_list, which fails when the listing or the pointer
\* cannot be read
CliList(listing) ==
    Ran("vvm list", NoVer,
        Left(setup_home(ptr), vdir, ~all_versions(listing).err))

(***************************************************************************)
(* The vyper wrapper (src/src/vyper/main.rs), one invocation at a time.    *)
(*   wpc      where the invocation is: idle, resolve (before               *)
(*            current_version), running (the toolchain runs), done         *)
(*   wargs    its arguments, wfile the canonical path of the first         *)
(*   wres     how it ended and what it printed                             *)
(*   wchild   the toolchain process: its arguments and what it will exit   *)
(*            with                                                         *)
(*   spawned  whether it spawned the toolchain                             *)
(*   readPtr  whether it read .global-version                              *)
(*   wsnap    the cache it loaded, the cache file it found, and whether    *)
(*            the loaded entry of wfile matched the file's bytes then      *)
(***************************************************************************)
\* the working directory of the invocation
Cwd == <<"/", "w", "/">>

\* the argument lists the wrapper is run with
ArgA == <<"a.vy">>
ArgDotA == <<".", "/", "a.vy">>
ArgB == <<"b.vy">>
ArgFlag == <<"-", "f">>
ArgLists == { <<ArgA>>, <<ArgDotA>>, <<ArgA, ArgB>>, <<ArgFlag, ArgA>> }

\* str::starts_with('-')
StartsWithDash(a) == a /= <<>> /\ a[1] = "-"

\* the path without its leading "./" components
RECURSIVE StripDot(_)
StripDot(a) ==
    IF Len(a) >= 2 /\ a[1] = "." /\ a[2] = "/"
    THEN StripDot(SubSeq(a, 3, Len(a)))
    ELSE a

\* fs::canonicalize(arg): [ok, path]; the absolute path of an existing file
canonicalize(a) ==
    LET abs == IF a /= <<>> /\ a[1] = "/" THEN a ELSE Cwd \o StripDot(a) IN
    IF abs \in Paths /\ src[abs].exists
    THEN [ok |-> TRUE, path |-> abs]
    ELSE [ok |-> FALSE, path |-> NoPath]

\* the file at the entry's recorded path has the bytes the entry was made of
EntryMatchesFile(e) ==
    /\ src[e.source_name].exists
    /\ HexEncode(Md5(src[e.source_name].content), DigestBytes) = e.content_hash

\* the test of main with the negation of starts_with lost
cache_hit_flag_only(args, c, file) ==
    /\ Len(args) = 1 /\ StartsWithDash(args[1])
    /\ file \in DOMAIN c.files
    /\ ~is_dirty(c.files[file])

\* main: `args.len() == 1 && !args[0].starts_with('-')`, an entry of the
\* file, and `!entry.is_dirty()`
cache_hit(args, c, file) ==
    /\ Len(args) = 1 /\ ~StartsWithDash(args[1])
    /\ file \in DOMAIN c.files
    /\ ~is_dirty(c.files[file])

\* get_bytecode without the test of the prefix
get_bytecode_any(out) == {out}

\* get_bytecode(stdout): the optional output that starts with "0x"
get_bytecode(out) == IF out /= <<>> /\ out[1] = "0x" THEN {out} ELSE {}

\* what the toolchain of version v prints for a file of content c
Compiled(v, c) == <<"0x">> \o c \o <<"@">> \o VersionToString(v)

\* main up to the cache test: setup_home, VyperFilesCache::get,
\* fs::canonicalize(&args[0]), and the cached output printed on a hit
WrapperStart(args) ==
    LET loaded == CacheGet(cacheDoc)
        canon == canonicalize(args[1])
    IN  /\ wpc \in {"idle", "done"}
        /\ ptr' = setup_home(ptr)
        /\ wargs' = args
        /\ cache' = loaded
        /\ wfile' = canon.path
        /\ spawned' = FALSE
        /\ readPtr' = FALSE
        /\ wchild' = Child("none", <<>>, <<>>)
        /\ wsnap' = [cache |-> loaded, doc |-> cacheDoc,
                     fresh |-> /\ canon.ok
                               /\ canon.path \in DOMAIN loaded.files
                               /\ EntryMatchesFile(loaded.files[canon.path])]
        /\ IF ~canon.ok
           THEN wpc' = "done" /\ wres' = WRes("io_error", <<>>)
           ELSE IF cache_hit(args, loaded, canon.path)
           THEN /\ wpc' = "done"
                /\ wres' = WRes("hit", loaded.files[canon.path].deployed_bytecode)
           ELSE wpc' = "resolve" /\ wres' = WRes("none", <<>>)
        /\ UNCHANGED <<vdir, lockIno, cacheDir, src, cacheDoc, clast, persisted,
                       instVars, regVars>>

\* main: vvm_lib::current_version()?.ok_or(GlobalVersionNotSet)?, then
\* Command::new(version_path).args(args).spawn().expect(..), which panics
\* when the binary is missing; the toolchain reads the source as it starts,
\* and exits with `how`
WrapperSpawn(how) ==
    /\ wpc = "resolve"
    /\ readPtr' = TRUE
    /\ IF current_version.err /= "none"
       THEN /\ wpc' = "done"
            /\ wres' = WRes("io_error", <<>>)
            /\ UNCHANGED <<spawned, wchild>>
       ELSE IF current_version.val = {}
       THEN /\ wpc' = "done"
            /\ wres' = WRes("GlobalVersionNotSet", <<>>)
            /\ UNCHANGED <<spawned, wchild>>
       ELSE LET v == CHOOSE x \in current_version.val : TRUE IN
            IF v \in CatalogVersions /\ vdir[version_path(v)].exists
                   /\ vyper_name(v) \in DOMAIN vdir[version_path(v)].files
            THEN /\ wpc' = "running"
                 /\ spawned' = TRUE
                 /\ wchild' = IF ~src[wfile].exists THEN Child("failed", <<>>, wargs)
                               ELSE IF how = "bytecode"
                               THEN Child(how, Compiled(v, src[wfile].content), wargs)
                               ELSE IF how = "text" THEN Child(how, <<"text">>, wargs)
                               ELSE Child("failed", <<>>, wargs)
                 /\ UNCHANGED wres
            ELSE /\ wpc' = "done"
                 /\ wres' = WRes("panic", <<>>)
                 /\ UNCHANGED <<spawned, wchild>>
    /\ UNCHANGED <<fsVars, cacheVars, instVars, regVars, wargs, wfile, wsnap>>

\* main after child.wait_with_output(): the output printed, and for a single
\* file whose output is bytecode, cache.add_entry and cache.write
WrapperExit ==
    /\ wpc = "running"
    /\ wpc' = "done"
    /\ IF wchild.how = "failed"
       THEN /\ wres' = WRes("failed", <<>>)
            /\ UNCHANGED <<cache, cacheDoc, cacheDir>>
       ELSE /\ wres' = WRes("compiled", wchild.out)
            /\ IF /\ Len(wargs) = 1 /\ ~StartsWithDash(wargs[1])
                  /\ get_bytecode(wchild.out) /= {}
                  /\ add_entry(cache, wfile, wchild.out).ok
               THEN /\ cache' = add_entry(cache, wfile, wchild.out).cache
                    /\ cacheDoc' = CacheWrite(cache')
                    /\ cacheDir' = TRUE
               ELSE UNCHANGED <<cache, cacheDoc, cacheDir>>
    /\ UNCHANGED <<ptr, vdir, lockIno, src, clast, persisted, instVars, regVars,
                   wargs, wfile, wchild, spawned, readPtr, wsnap>>

\* the toolchain has exited with success and main goes on to
\* cache.add_entry, which succeeds, and cache.write
Persisting ==
    /\ wpc = "running"
    /\ wchild.how /= "failed"
    /\ Len(wargs) = 1 /\ ~StartsWithDash(wargs[1])
    /\ get_bytecode(wchild.out) /= {}
    /\ add_entry(cache, wfile, wchild.out).ok

\* main after child.wait_with_output() that returns the error of cache.write
WrapperExitWriteAborts ==
    /\ Persisting
    /\ wpc' = "done"
    /\ wres' = WRes("io_error", <<>>)
    /\ cache' = add_entry(cache, wfile, wchild.out).cache
    /\ UNCHANGED <<fsVars, src, cacheDoc, clast, persisted, instVars, regVars,
                   wargs, wfile, wchild, spawned, readPtr, wsnap>>

\* main after child.wait_with_output() when cache.write fails in
\* create_parent_dir_all or File::create (the cache file or its directory is
\* not writable): `let _ =` discards the error
WrapperExitWriteRefused ==
    /\ Persisting
    /\ wpc' = "done"
    /\ wres' = WRes("compiled", wchild.out)
    /\ cache' = add_entry(cache, wfile, wchild.out).cache
    /\ UNCHANGED <<fsVars, src, cacheDoc, clast, persisted, instVars, regVars,
                   wargs, wfile, wchild, spawned, readPtr, wsnap>>

\* main after child.wait_with_output() when cache.write fails in
\* serde_json::to_writer_pretty after File::create and k tokens of the
\* document: the error is discarded and the file is left cut
WrapperExitWriteCut(k) ==
    /\ Persisting
    /\ k \in CutPoints(Serialize(add_entry(cache, wfile, wchild.out).cache))
    /\ wpc' = "done"
    /\ wres' = WRes("compiled", wchild.out)
    /\ cache' = add_entry(cache, wfile, wchild.out).cache
    /\ cacheDir' = TRUE
    /\ cacheDoc' = [exists |-> TRUE, content |-> SubSeq(Serialize(cache'), 1, k)]
    /\ UNCHANGED <<ptr, vdir, lockIno, src, clast, persisted, instVars, regVars,
                   wargs, wfile, wchild, spawned, readPtr, wsnap>>

\* the user edits, creates or deletes a source file
EditSource(path, f) ==
    /\ src[path] /= f
    /\ src' = [src EXCEPT ![path] = f]
    /\ UNCHANGED <<fsVars, cacheDoc, cache, clast, persisted, instVars, regVars,
                   wrapVars>>

InitFs ==
    /\ ptr = NoFile
    /\ vdir = [d \in CatalogDirs |-> NoDir]
    /\ lockIno = [l \in CatalogLocks |-> 0]
    /\ cacheDir = FALSE

InitInstallers ==
    /\ pc = [p \in Installers |-> "idle"]
    /\ ver = [p \in Installers |-> CHOOSE v \in Versions : TRUE]
    /\ lockFd = [p \in Installers |-> 0]
    /\ holder = [i \in Inodes |-> 0]
    /\ nextIno = 1
    /\ off = [p \in Installers |-> 0]
    /\ raced = [v \in Versions |-> FALSE]
    /\ creator = [i \in Inodes |-> 0]

InitRegVars ==
    /\ last = ROp("init", NoVer, TRUE, FALSE)
    /\ lastPtr = [op |-> "none", v |-> NoVer]

InitWrapVars ==
    /\ wpc = "idle"
    /\ wargs = <<>>
    /\ wfile = NoPath
    /\ wres = WRes("none", <<>>)
    /\ wchild = Child("none", <<>>, <<>>)
    /\ spawned = FALSE
    /\ readPtr = FALSE
    /\ wsnap = [cache |-> VyperFilesCacheNew, doc |-> NoFile, fresh |-> FALSE]

InitAll == InitFs /\ InitInstallers /\ InitCacheVars /\ InitRegVars /\ InitWrapVars

InitInstall == InitAll

NextInstall ==
    \E p \in Installers :
        \/ \E v \in Versions : FetchWith(p, v, ListingFull, Resp(StatusOk))
        \/ OpenLock(p)
        \/ LockExclusive(p)
        \/ SetupVersion(p)
        \/ CreateBinary(p)
        \/ SetPermissions(p)
        \/ CopyChunk(p)
        \/ DropRemove(p)
        \/ DropClose(p)


SpecInstall == InitInstall /\ [][NextInstall]_vars

(***************************************************************************)
(* C1: at most one installer of a version is between acquiring and         *)
(* releasing the version's install lock, in every reachable state.         *)
(***************************************************************************)
C1_MutualExclusion ==
    \A p, q \in Installers :
        (p /= q /\ InCritical(p) /\ InCritical(q)) => ver[p] /= ver[q]

(***************************************************************************)
(* C2: once at least two install(v) calls have completed and none is       *)
(* running, v's directory holds exactly one file, the binary, and its      *)
(* content is the whole fetched payload.                                   *)
(***************************************************************************)
DoneOf(v) == {p \in Installers : pc[p] = "done" /\ ver[p] = v}
RunningOf(v) == {p \in Installers : pc[p] \notin {"idle", "done"} /\ ver[p] = v}

C2_InstallTwiceOneFullBinary ==
    \A v \in Versions :
        (Cardinality(DoneOf(v)) >= 2 /\ RunningOf(v) = {}) =>
            /\ vdir[version_path(v)].exists
            /\ DOMAIN vdir[version_path(v)].files = {vyper_name(v)}
            /\ vdir[version_path(v)].files[vyper_name(v)].content = Payload(v)

\* two installs of one version completed after writing the binary at the
\* same time
C2_Witness ==
    \E v \in Versions :
        Cardinality(DoneOf(v)) >= 2 /\ RunningOf(v) = {} /\ raced[v]

(***************************************************************************)
(* The cache on its own: the operations of VyperFilesCache in any order,   *)
(* with the source files and the cache file changing under them.           *)
(***************************************************************************)
InitCache == InitAll

NextCache ==
    \/ Get
    \/ \E path \in Paths, out \in Outputs : AddEntry(path, out)
    \/ Write
    \/ \E k \in 0..(HeadLen + Len(PathList) * EntryLen + TailLen) : WriteCut(k)
    \/ \E c \in Contents, out \in Outputs : ForeignWrite(c, out)
    \/ \E path \in Paths : \E c \in ContentsOf(path) : SrcModify(path, c)
    \/ \E path \in Paths : SrcDelete(path)

SpecCache == InitCache /\ [][NextCache]_vars

(***************************************************************************)
(* The root directory under the public operations, one call at a time:     *)
(* installs, removals, pointer updates and the wrapper's cache persist.    *)
(***************************************************************************)
Init == InitAll

Next ==
    \/ \E v \in Versions : Install(v)
    \/ \E v \in Versions : RemoveVersion(v)
    \/ \E v \in Versions : UseVersion(v)
    \/ UnsetGlobalVersion
    \/ \E text \in PtrTexts : PointerEdit(text)
    \/ CachePersist

Spec == Init /\ [][Next]_vars

(***************************************************************************)
(* C3: after a successful install(v) of a version that was not installed,  *)
(* list_installed() succeeds with a list that contains v, and the binary   *)
(* at <root>/<v>/vyper-<v> is executable, whatever public operations ran   *)
(* before.                                                                 *)
(***************************************************************************)
C3_InstallThenListed ==
    (last.op = "install" /\ last.ok /\ last.fresh) =>
        /\ installed_versions.err = "none"
        /\ last.v \in SeqToSet(installed_versions.val)
        /\ vyper_name(last.v) \in DOMAIN vdir[version_path(last.v)].files
        /\ IsExecutable(vdir[version_path(last.v)].files[vyper_name(last.v)].mode)

(***************************************************************************)
(* C4: current() returns exactly the version of the last set_current, and  *)
(* none when the last pointer update was unset_current, whether or not the *)
(* version is installed.                                                   *)
(***************************************************************************)
C4_CurrentIsLastSet ==
    /\ lastPtr.op = "unset" => current_version = [err |-> "none", val |-> {}]
    /\ lastPtr.op = "set" => current_version = [err |-> "none", val |-> {lastPtr.v}]

\* the pointer names a version that is not installed, after another version
\* was written to it before
C4_Witness ==
    /\ lastPtr.op = "set"
    /\ ~vdir[version_path(lastPtr.v)].exists
    /\ current_version.val = {lastPtr.v}
    /\ \E w \in Versions : w /= lastPtr.v /\ vdir[version_path(w)].exists

(***************************************************************************)
(* C5: an entry is fresh (not is_dirty) exactly when the hash of the       *)
(* current bytes of the file at its recorded path equals its stored hash;  *)
(* an entry that was fresh is not fresh after the file's bytes were        *)
(* modified; and it is not fresh when the file cannot be opened.           *)
(***************************************************************************)
HashOfFile(path) == HexEncode(Md5(src[path].content), DigestBytes)

C5_FreshIffHashEqual ==
    /\ \A p \in DOMAIN cache.files :
         LET e == cache.files[p] IN
         /\ ~is_dirty(e) <=>
                (src[e.source_name].exists /\ HashOfFile(e.source_name) = e.content_hash)
         /\ ~src[e.source_name].exists => is_dirty(e)
    /\ (clast.op = "modify" /\ clast.flag /\ clast.path \in DOMAIN cache.files)
           => is_dirty(cache.files[clast.path])

\* a file whose entry was fresh has just been modified
C5_Witness ==
    /\ clast.op = "modify" /\ clast.flag
    /\ clast.path \in DOMAIN cache.files
    /\ is_dirty(cache.files[clast.path])

(***************************************************************************)
(* C6: a successful upsert(path, output) leaves for path the entry (hash   *)
(* of the file's current content, path, output), leaves every entry of     *)
(* another path as it was, and grows the number of entries by one when     *)
(* path had none and by nothing when it had one.                           *)
(***************************************************************************)
C6_UpsertReplaces ==
    [][\A path \in Paths, out \in Outputs :
         (AddEntry(path, out) /\ clast'.ok) =>
            /\ path \in DOMAIN cache'.files
            /\ cache'.files[path] = CacheEntry(HashOfFile(path), path, out)
            /\ \A q \in (DOMAIN cache.files) \ {path} :
                   q \in DOMAIN cache'.files /\ cache'.files[q] = cache.files[q]
            /\ Cardinality(DOMAIN cache'.files) =
                   Cardinality(DOMAIN cache.files)
                       + (IF path \in DOMAIN cache.files THEN 0 ELSE 1)
      ]_vars

\* an upsert has replaced the entry of a path while another path has one
C6_Witness ==
    /\ clast.op = "add" /\ clast.ok /\ clast.flag
    /\ DOMAIN cache.files = Paths

(***************************************************************************)
(* C7: a load() after a successful persist() returns the cache that was    *)
(* persisted: the same format tag, the same paths, and for each path the   *)
(* same hash, source name and output.                                      *)
(***************************************************************************)
C7_PersistLoadRoundTrip ==
    (clast.op = "get" /\ persisted /= {}) =>
        \A c \in persisted :
            /\ cache.format = c.format
            /\ DOMAIN cache.files = DOMAIN c.files
            /\ \A p \in DOMAIN c.files : cache.files[p] = c.files[p]

\* a cache of two entries was persisted and loaded
C7_Witness ==
    /\ clast.op = "get" /\ persisted /= {}
    /\ DOMAIN cache.files = Paths

(***************************************************************************)
(* C8: load() never fails; when the cache file is missing or its content   *)
(* does not parse (a partially written file included), it returns a cache  *)
(* with the current format tag and no entries.                             *)
(***************************************************************************)
C8_LoadFallsBackToEmpty ==
    clast.op = "get" =>
        /\ clast.ok
        /\ (~cacheDoc.exists \/ ~ParseDoc(cacheDoc.content).ok) =>
               (cache.format = FORMAT_VERSION /\ DOMAIN cache.files = {})

\* a load of a cache file that an interrupted persist left partially written
C8_Witness ==
    /\ clast.op = "get"
    /\ cacheDoc.exists /\ Len(cacheDoc.content) > HeadLen
    /\ ~ParseDoc(cacheDoc.content).ok

(***************************************************************************)
(* C9: a cache document whose format tag differs from FORMAT_VERSION is    *)
(* rejected on load: the loaded cache has no entries.                      *)
(***************************************************************************)
C9_ForeignFormatRejected ==
    (/\ clast.op = "get"
     /\ cacheDoc.exists
     /\ ParseDoc(cacheDoc.content).ok
     /\ ParseDoc(cacheDoc.content).cache.format /= FORMAT_VERSION)
        => DOMAIN cache.files = {}

(***************************************************************************)
(* The wrapper run again and again, while the user edits the source files, *)
(* installs versions and moves the global version.                         *)
(***************************************************************************)
InitWrapper == InitAll

NextWrapper ==
    \/ \E args \in ArgLists : WrapperStart(args)
    \/ \E how \in {"bytecode", "text", "failed"} : WrapperSpawn(how)
    \/ WrapperExit
    \/ \E c \in Contents : EditSource(PathList[1], [exists |-> TRUE, content |-> c])
    \/ EditSource(PathList[1], NoFile)
    \/ \E v \in Versions : InstallWith(v, ListingFull, Resp(StatusOk))
    \/ \E v \in Versions : UseVersion(v)
    \/ UnsetGlobalVersion

SpecWrapper == InitWrapper /\ [][NextWrapper]_vars

(***************************************************************************)
(* C10: a wrapper invocation with exactly one argument that does not start *)
(* with '-', whose file has a fresh entry in the cache, prints the cached  *)
(* output and returns without spawning the toolchain, without reading the  *)
(* global version pointer and without modifying the cache.                 *)
(***************************************************************************)
C10_FreshHitSkipsToolchain ==
    (/\ wpc \in {"resolve", "running", "done"}
     /\ Len(wargs) = 1 /\ ~StartsWithDash(wargs[1])
     /\ wsnap.fresh)
        => /\ wpc = "done"
           /\ wres = WRes("hit", wsnap.cache.files[wfile].deployed_bytecode)
           /\ ~spawned
           /\ ~readPtr
           /\ cache = wsnap.cache
           /\ cacheDoc = wsnap.doc

\* a hit on the file spelled "./a.vy", its entry cached by an earlier run
C10_Witness ==
    /\ wpc = "done" /\ wres.how = "hit"
    /\ wargs = <<ArgDotA>>
    /\ wsnap.fresh

(***************************************************************************)
(* C11: a wrapper invocation with more than one argument, or whose first   *)
(* argument starts with '-', run while the global version names an         *)
(* installed version and its file arguments exist, goes on to the          *)
(* toolchain: it is not ended by the                                       *)
(* steps before the spawn, the toolchain is started with the invocation's  *)
(* arguments, the output printed is not a cached one, and neither the      *)
(* cache in memory nor the cache file is changed by the toolchain's exit.  *)
(***************************************************************************)
\* the arguments for which main skips both cache tests
Bypass(args) == Len(args) > 1 \/ (Len(args) >= 1 /\ StartsWithDash(args[1]))

\* .global-version names a version whose binary is installed
VersionReady ==
    /\ current_version.err = "none"
    /\ current_version.val /= {}
    /\ \A v \in current_version.val :
          /\ v \in CatalogVersions
          /\ vdir[version_path(v)].exists
          /\ vyper_name(v) \in DOMAIN vdir[version_path(v)].files

\* every argument that is not a flag names a source file that exists
SourcesExist(args) ==
    \A i \in 1..Len(args) : StartsWithDash(args[i]) \/ canonicalize(args[i]).ok

C11_BypassInvokesToolchain ==
    [][/\ \A args \in ArgLists :
            (Bypass(args) /\ VersionReady /\ SourcesExist(args)
                /\ WrapperStart(args))
                => /\ wpc' = "resolve"
                   /\ cacheDoc' = cacheDoc
       /\ \A how \in {"bytecode", "text", "failed"} :
            (Bypass(wargs) /\ VersionReady /\ WrapperSpawn(how))
                => /\ spawned'
                   /\ wchild'.args = wargs
                   /\ UNCHANGED <<cache, cacheDoc>>
       /\ (Bypass(wargs) /\ WrapperExit)
                => /\ wres'.how /= "hit"
                   /\ UNCHANGED <<cache, cacheDoc>>
      ]_vars

(***************************************************************************)
(* C12: when the toolchain of a single-argument, non-flag invocation (one  *)
(* that found no entry or a stale one) exits, the cache file holds the     *)
(* entry (hash of the file's content, the toolchain's output) for the file *)
(* if and only if the toolchain succeeded with output that starts with     *)
(* "0x"; otherwise the cache in memory and the cache file are unchanged.   *)
(***************************************************************************)
\* the arguments for which main uses the cache
Single(args) == Len(args) = 1 /\ ~StartsWithDash(args[1])

\* the toolchain exited with success and printed bytecode
Cacheable(child) ==
    child.how /= "failed" /\ child.out /= <<>> /\ child.out[1] = "0x"

\* the cache file holds, under the file's path, its current hash and `out`
Recorded(doc, path, out) ==
    /\ get_file_hash(path).ok
    /\ path \in DOMAIN CacheGet(doc).files
    /\ CacheGet(doc).files[path]
          = CacheEntry(get_file_hash(path).hash, path, out)

InitInstallIo == InitAll

NextInstallIo ==
    \E p \in Installers :
        \/ \E v \in Versions : Fetch(p, v)
        \/ OpenLock(p)
        \/ LockExclusive(p)
        \/ SetupVersion(p)
        \/ CreateBinary(p)
        \/ SetPermissions(p)
        \/ CopyChunk(p)
        \/ IoFail(p)
        \/ DropRemove(p)
        \/ DropClose(p)

SpecInstallIo == InitInstallIo /\ [][NextInstallIo]_vars

\* the listing names an asset of version v for the host's platform
Listed(listing, v) ==
    /\ ~listing.err
    /\ \E i \in 1..Len(listing.body) :
          /\ listing.body[i].tag_name = <<"v">> \o VersionToString(v)
          /\ \E j \in 1..Len(listing.body[i].assets) :
                \E k \in 1..Len(listing.body[i].assets[j]) :
                    listing.body[i].assets[j][k] = "linux"

\* the caller's step left the lock files, the locks, and every version
\* directory as they were
NoInstallEffects == UNCHANGED <<vdir, lockIno, lockFd, holder, nextIno>>

(***************************************************************************)
(* C13: when the release listing is received and has no asset of the       *)
(* requested version for the host's platform, install returns              *)
(* UnknownVersion without having sent the download request, and leaves     *)
(* the lock files, the locks and the version directories (among them the   *)
(* version's own, and its binary) unchanged.                               *)
(***************************************************************************)
C13_UnknownVersionNoEffects ==
    [][\A p \in Installers : (pc[p] = "idle" /\ pc'[p] /= "idle") =>
        \A v \in Versions, listing \in Listings, resp \in Responses :
          (/\ ~listing.err /\ ~Listed(listing, v)
           /\ FetchWith(p, v, listing, resp))
              => /\ pc'[p] = "failed"
                 /\ last'.op = "install" /\ last'.v = v /\ ~last'.ok
                 /\ last'.err = UnknownVersion
                 /\ ~last'.sent
                 /\ NoInstallEffects
      ]_vars

\* install(v) returned UnknownVersion while v was installed in full and
\* another caller's lock file for v was in place
C13_Witness ==
    /\ last.op = "install" /\ last.err = UnknownVersion
    /\ \E p \in Installers : pc[p] = "failed" /\ ver[p] = last.v
    /\ vdir[version_path(last.v)].exists
    /\ vyper_name(last.v) \in DOMAIN vdir[version_path(last.v)].files
    /\ lockIno[lock_file_path(last.v)] /= 0

(***************************************************************************)
(* C14: when the version is listed and the download request is answered    *)
(* with a status outside 200..299, install returns UnsuccessfulResponse    *)
(* with the download URL and that status, without opening or locking the   *)
(* lock file, and leaves the version directories and binaries unchanged.   *)
(***************************************************************************)
\* the URL of the last asset the listing names for v and the host
DownloadUrl(listing, v) ==
    artifact_url(v, all_releases(listing, HostPlatform).releases[v])

C14_BadStatusNoLock ==
    [][\A p \in Installers : (pc[p] = "idle" /\ pc'[p] /= "idle") =>
        \A v \in Versions, listing \in Listings, resp \in Responses :
          (/\ Listed(listing, v)
           /\ ~resp.err /\ resp.status \notin 200..299
           /\ FetchWith(p, v, listing, resp))
              => /\ pc'[p] = "failed"
                 /\ last'.op = "install" /\ last'.v = v /\ ~last'.ok
                 /\ last'.err = UnsuccessfulResponse(DownloadUrl(listing, v),
                                                     resp.status)
                 /\ NoInstallEffects
      ]_vars

\* install(v) returned UnsuccessfulResponse while v was installed in full
C14_Witness ==
    /\ last.op = "install" /\ last.err.kind = "UnsuccessfulResponse"
    /\ last.err.status = StatusNotFound
    /\ \E p \in Installers : pc[p] = "failed" /\ ver[p] = last.v
    /\ vdir[version_path(last.v)].exists
    /\ vyper_name(last.v) \in DOMAIN vdir[version_path(last.v)].files
    /\ vdir[version_path(last.v)].files[vyper_name(last.v)].content = Payload(last.v)

(***************************************************************************)
(* C15: a caller that acquired the install lock leaves the locked span     *)
(* only through the drop of the lock, on success and after a failed system *)
(* call alike: the step that leaves it unlinks the lock path, and when     *)
(* install returns the caller holds no lock, has no descriptor on a lock   *)
(* file, and the file it had locked is not at the lock path.               *)
(***************************************************************************)
\* the caller has returned from install after acquiring the lock
Returned(p) == pc[p] \in {"done", "failedIo"}

BinaryPath(v) == version_path(v) \o <<"/">> \o vyper_name(v)

C16_DifferentVersionsIndependent ==
    /\ \A v, w \in Versions :
          v /= w => /\ lock_file_path(v) /= lock_file_path(w)
                    /\ version_path(v) /= version_path(w)
                    /\ BinaryPath(v) /= BinaryPath(w)
    /\ \A p \in Installers :
          (pc[p] = "opened" /\ holder[lockFd[p]] /= 0)
              => ver[holder[lockFd[p]]] = ver[p]
    /\ \A v \in Versions :
          (DoneOf(v) /= {} /\ RunningOf(v) = {})
              => vdir[version_path(v)] = do_install(NoDir, v)

\* an install completed while a caller installing the other version, which
\* had its lock before, was still copying
C16_Witness ==
    \E p, q \in Installers :
        /\ ver[p] /= ver[q]
        /\ pc[p] = "done" /\ RunningOf(ver[p]) = {}
        /\ pc[q] = "copy" /\ off[q] = 1
        /\ vdir[version_path(ver[p])] = do_install(NoDir, ver[p])

(***************************************************************************)
(* C17: when an entry of the root other than .global-version has a name    *)
(* that does not parse as a version, list_installed() fails with           *)
(* UnknownVersion and returns no list, whatever versions are installed.    *)
(***************************************************************************)
\* the entries of the root whose name is not a version
Unparsable == {n \in RootEntries \ {global_version_path} : ParseVersion(n) = {}}

InstalledDirs == {v \in Versions : vdir[version_path(v)].exists}

\* the rank of a version among versions with components below 100
Rank(v) == (v.major * 100 + v.minor) * 100 + v.patch

C18_ListedSortedExact ==
    (ptr.exists /\ RootEntries \ {global_version_path} \subseteq VersionDirs)
        => /\ installed_versions.err = "none"
           /\ SeqToSet(installed_versions.val) = InstalledDirs
           /\ \A i, j \in 1..Len(installed_versions.val) :
                 i < j => Rank(installed_versions.val[i])
                            < Rank(installed_versions.val[j])

\* both versions are installed: 0.3.3 comes before 0.3.10
C18_Witness ==
    /\ ptr.exists
    /\ RootEntries \ {global_version_path} = VersionDirs
    /\ installed_versions.val = <<Ver(0, 3, 3), Ver(0, 3, 10)>>

\* only .global-version is in the root
C18_WitnessEmpty ==
    /\ RootEntries = {global_version_path}
    /\ installed_versions = [err |-> "none", val |-> <<>>]

(***************************************************************************)
(* C19: whenever .global-version exists and its content is empty or does   *)
(* not parse as a version, current() returns none and no error.            *)
(***************************************************************************)
C19_UnparsablePointerIsNone ==
    (ptr.exists /\ ParseVersion(ptr.content) = {})
        => current_version = [err |-> "none", val |-> {}]

(***************************************************************************)
(* C19, amended: whenever .global-version exists and its content, without  *)
(* the newlines at its end, is empty or does not parse as a version,       *)
(* current() returns none and no error; content that is a version followed *)
(* by newlines yields that version.                                        *)
(***************************************************************************)
\* the text without the newline tokens at its end
RECURSIVE ChopNewlines(_)
ChopNewlines(t) ==
    IF t = <<>> THEN t
    ELSE IF t[Len(t)] = "\n" THEN ChopNewlines(SubSeq(t, 1, Len(t) - 1))
    ELSE t

C19_UnparsableTrimmedIsNone ==
    /\ (ptr.exists /\ ParseVersion(ChopNewlines(ptr.content)) = {})
          => current_version = [err |-> "none", val |-> {}]
    /\ (ptr.exists /\ ParseVersion(ChopNewlines(ptr.content)) /= {})
          => current_version = [err |-> "none",
                                val |-> ParseVersion(ChopNewlines(ptr.content))]

\* the pointer holds a text that is not a version
C19_Witness ==
    /\ ptr.exists
    /\ ptr.content = <<"0", ".", "3">>
    /\ current_version = [err |-> "none", val |-> {}]

(***************************************************************************)
(* C20: remove(v) of an installed version deletes its directory, after     *)
(* which list_installed() does not contain v, and leaves .global-version   *)
(* (also when it names v) and every other version's directory unchanged;   *)
(* remove(v) of a version whose directory does not exist fails and changes *)
(* nothing.                                                                *)
(***************************************************************************)
C20_RemoveOnlyTheDirectory ==
    [][\A v \in Versions : RemoveVersion(v) =>
          IF vdir[version_path(v)].exists
          THEN /\ last'.ok
               /\ ~vdir'[version_path(v)].exists
               /\ v \notin SeqToSet(installed_versions.val)'
               /\ \A w \in Versions \ {v} :
                     vdir'[version_path(w)] = vdir[version_path(w)]
               /\ UNCHANGED <<ptr, lockIno, cacheDir>>
          ELSE /\ ~last'.ok
               /\ UNCHANGED fsVars
      ]_vars

\* the version the pointer names was removed while the other is installed:
\* the pointer still names it
C20_Witness ==
    /\ last.op = "remove" /\ last.ok
    /\ ~vdir[version_path(last.v)].exists
    /\ current_version.val = {last.v}
    /\ \E w \in Versions : vdir[version_path(w)].exists
    /\ installed_versions.err = "none"

(***************************************************************************)
(* The command line, one command at a time with any answers to its prompts *)
(* and any answers of the network, and the wrapper persisting its cache    *)
(* between the commands.                                                   *)
(***************************************************************************)
InitCli == InitAll

NextCli ==
    \/ \E v \in CatalogVersions, input \in Inputs,
          listing \in Listings, dl \in Listings, resp \in Responses :
            CliInstall(v, input, listing, dl, resp)
    \/ \E v \in CatalogVersions, input \in Inputs, input2 \in Inputs,
          listing \in Listings, listing2 \in Listings, dl \in Listings,
          resp \in Responses :
            CliUse(v, input, input2, listing, listing2, dl, resp)
    \/ \E v \in CatalogVersions, input \in Inputs : CliRemove(v, input)
    \/ CliRemoveAll
    \/ \E listing \in Listings : CliList(listing)
    \/ CachePersist

SpecCli == InitCli /\ [][NextCli]_vars

(***************************************************************************)
(* C21: when handle_remove, confirmed, removes the version that is the     *)
(* current global version, the pointer afterwards names the greatest of    *)
(* the versions still installed, or current() is none when no version is   *)
(* installed any more; when the version removed is not the current one the *)
(* pointer is unchanged.                                                   *)
(***************************************************************************)
\* the catalog versions whose directory exists
InstalledNow == {v \in CatalogVersions : vdir[version_path(v)].exists}

\* the greatest of a set of versions, by (major, minor, patch)
Greatest(S) == CHOOSE v \in S : \A w \in S : Rank(w) <= Rank(v)

C21_RemoveRepointsToGreatest ==
    [][\A v \in CatalogVersions :
          (vdir[version_path(v)].exists /\ ~vdir'[version_path(v)].exists) =>
            \A input \in Inputs :
              CliRemove(v, input) =>
                IF current_version.val = {v}
                THEN /\ current_version'.err = "none"
                     /\ current_version'.val =
                          IF InstalledNow' = {} THEN {}
                          ELSE {Greatest(InstalledNow')}
                ELSE /\ ptr'.content = ptr.content
                     /\ current_version'.val = current_version.val
      ]_vars

\* the current version 0.3.7 was removed while 0.3.3 and 0.3.10 stay
\* installed: the pointer names 0.3.10
C21_Witness ==
    /\ last.op = "vvm remove" /\ last.v = Ver(0, 3, 7) /\ last.fresh
    /\ InstalledNow = {Ver(0, 3, 3), Ver(0, 3, 10)}
    /\ current_version.val = {Ver(0, 3, 10)}

\* the only installed version, the current one, was removed
C21_WitnessNone ==
    /\ last.op = "vvm remove" /\ last.fresh
    /\ InstalledNow = {}
    /\ ptr.exists /\ ptr.content = <<>>

(***************************************************************************)
(* C28: after any sequence of commands of the command line, run one at a   *)
(* time with any answers to the prompts and with cache persists of the     *)
(* wrapper in between, .global-version is empty or names a version whose   *)
(* directory exists and holds the version's binary.                        *)
(***************************************************************************)
\* the directory of v exists and holds the binary vyper-<v>
BinaryInstalled(v) ==
    /\ vdir[version_path(v)].exists
    /\ vyper_name(v) \in DOMAIN vdir[version_path(v)].files

C28_PointerNamesInstalled ==
    ptr.exists =>
        \/ ptr.content = <<>>
        \/ \E v \in CatalogVersions :
              ptr.content = VersionToString(v) /\ BinaryInstalled(v)

\* with the cache directory in the root, `vvm use` of another installed
\* version has left the pointer on the version set before
C28_Witness ==
    /\ cacheDir
    /\ last.op = "vvm use" /\ last.ok /\ ~last.fresh
    /\ BinaryInstalled(last.v)
    /\ \E v \in CatalogVersions \ {last.v} :
          ptr.content = VersionToString(v) /\ BinaryInstalled(v)

\* `vvm remove all` has emptied a pointer that named an installed version
C28_WitnessRemoveAll ==
    /\ last.op = "vvm remove all" /\ last.fresh
    /\ ptr.content = <<>>
    /\ InstalledNow = {}

(***************************************************************************)
(* Concurrent callers of use_version, each setting one version.            *)
(***************************************************************************)
InitPointer == InitAll

NextPointer ==
    \E p \in Installers :
        \/ \E v \in CatalogVersions : UseCreate(p, v)
        \/ UseWrite(p)

SpecPointer == InitPointer /\ [][NextPointer]_vars

(***************************************************************************)
(* C22: once two concurrent calls set_current(a) and set_current(b) have   *)
(* both completed, and no other caller has written the pointer, current()  *)
(* returns a or b: not none, and not a version neither call wrote.         *)
(***************************************************************************)
C22_LastWriteWins ==
    \A p, q \in Installers :
        (/\ p /= q
         /\ pc[p] = "ptrDone" /\ pc[q] = "ptrDone"
         /\ \A r \in Installers \ {p, q} : pc[r] = "idle")
            => /\ current_version.err = "none"
               /\ current_version.val /= {}
               /\ current_version.val \subseteq {ver[p], ver[q]}

(***************************************************************************)
(* Concurrent installs in which the removal of the lock file may fail when *)
(* the lock is dropped.                                                    *)
(***************************************************************************)
InitLeftover == InitAll

NextLeftover ==
    \E p \in Installers :
        \/ \E v \in Versions : FetchWith(p, v, ListingFull, Resp(StatusOk))
        \/ OpenLock(p)
        \/ LockExclusive(p)
        \/ SetupVersion(p)
        \/ CreateBinary(p)
        \/ SetPermissions(p)
        \/ CopyChunk(p)
        \/ DropRemove(p)
        \/ DropRemoveFail(p)
        \/ DropClose(p)

SpecLeftover == InitLeftover /\ [][NextLeftover]_vars

(***************************************************************************)
(* C23: a lock file left in the root with no live holder does no harm:     *)
(* a caller that opens it finds it unlocked, an install of the version     *)
(* that has returned has installed the binary, and, no install running,    *)
(* list_installed() returns the installed versions and current() returns   *)
(* what the pointer holds, as they do without the file.                    *)
(***************************************************************************)
\* the lock file of v is in the root and no caller is inside install
Leftover(v) ==
    /\ lockIno[lock_file_path(v)] /= 0
    /\ \A p \in Installers : pc[p] \in {"idle", "done"}

C23_LeftoverLockHarmless ==
    \A v \in Versions :
        Leftover(v) =>
            /\ holder[lockIno[lock_file_path(v)]] = 0
            /\ \A p \in Installers :
                  pc[p] = "done" => vdir[version_path(ver[p])] = do_install(NoDir, ver[p])
            /\ installed_versions.err = "none"
            /\ SeqToSet(installed_versions.val) = InstalledNow
            /\ current_version = [err |-> "none", val |-> {}]

(***************************************************************************)
(* C24: a wrapper invocation that needs the toolchain (its file arguments  *)
(* exist and it is not served from the cache: no entry, a stale entry, or  *)
(* arguments that bypass the cache) goes on to read the global version,    *)
(* and when the pointer is unset it ends with GlobalVersionNotSet, with no *)
(* toolchain process spawned and the cache in memory and on disk as they   *)
(* were.                                                                   *)
(***************************************************************************)
\* the invocation is not answered from the cache
NeedsToolchain(args) ==
    /\ SourcesExist(args)
    /\ ~cache_hit(args, CacheGet(cacheDoc), canonicalize(args[1]).path)

\* .global-version is missing (setup_home then creates it empty) or holds
\* no version
PointerUnset == current_version.val = {}

C24_UnsetPointerFails ==
    [][/\ \A args \in ArgLists :
            (NeedsToolchain(args) /\ WrapperStart(args))
                => /\ wpc' = "resolve"
                   /\ ~spawned'
                   /\ cacheDoc' = cacheDoc
       /\ \A how \in {"bytecode", "text", "failed"} :
            (PointerUnset /\ WrapperSpawn(how))
                => /\ wpc' = "done"
                   /\ wres' = WRes("GlobalVersionNotSet", <<>>)
                   /\ ~spawned'
                   /\ UNCHANGED <<cache, cacheDoc, cacheDir>>
      ]_vars

(***************************************************************************)
(* The wrapper run again and again as in SpecWrapper, with a cache file    *)
(* that may be unwritable and cache writes that may fail part-way.         *)
(***************************************************************************)
InitWrapperIo == InitAll

NextWrapperIo ==
    \/ \E args \in ArgLists : WrapperStart(args)
    \/ \E how \in {"bytecode", "text", "failed"} : WrapperSpawn(how)
    \/ WrapperExit
    \/ WrapperExitWriteRefused
    \/ \E k \in 0..(HeadLen + Len(PathList) * EntryLen + TailLen) :
          WrapperExitWriteCut(k)
    \/ \E c \in Contents : EditSource(PathList[1], [exists |-> TRUE, content |-> c])
    \/ EditSource(PathList[1], NoFile)
    \/ \E v \in Versions : InstallWith(v, ListingFull, Resp(StatusOk))
    \/ \E v \in Versions : UseVersion(v)
    \/ UnsetGlobalVersion

SpecWrapperIo == InitWrapperIo /\ [][NextWrapperIo]_vars

(***************************************************************************)
(* C25: no failure of the cache ends or changes a compile. An invocation   *)
(* that finds the cache file missing or malformed starts from the empty    *)
(* cache and, its file existing, goes on to the toolchain as it does with  *)
(* an empty cache; with the global version naming an installed version the *)
(* toolchain is spawned; and whether the entry cannot be made, the cache   *)
(* file cannot be written or its write stops part-way, the invocation ends *)
(* by reporting the toolchain's result.                                    *)
(***************************************************************************)
\* the steps of main after the toolchain has exited
AnyWrapperExit ==
    \/ WrapperExit
    \/ WrapperExitWriteRefused
    \/ \E k \in 0..(HeadLen + Len(PathList) * EntryLen + TailLen) :
          WrapperExitWriteCut(k)

C25_CacheFailuresSilent ==
    [][/\ \A args \in ArgLists :
            (~CacheRead(cacheDoc).ok /\ canonicalize(args[1]).ok
                /\ WrapperStart(args))
                => /\ cache' = VyperFilesCacheNew
                   /\ wpc' = "resolve"
       /\ (wpc = "resolve" /\ VersionReady) =>
            \A how \in {"bytecode", "text", "failed"} :
                WrapperSpawn(how) => (spawned' /\ wpc' = "running")
       /\ (wpc = "running" /\ AnyWrapperExit)
                => /\ wpc' = "done"
                   /\ wres' = IF wchild.how = "failed" THEN WRes("failed", <<>>)
                              ELSE WRes("compiled", wchild.out)
      ]_vars

\* an invocation that found a cut cache file has compiled and reported the
\* output, and its own write of the cache was cut as well
C25_Witness ==
    /\ wpc = "done" /\ wres.how = "compiled" /\ Single(wargs)
    /\ wsnap.doc.exists /\ ~CacheRead(wsnap.doc).ok
    /\ cacheDoc /= wsnap.doc /\ ~CacheRead(cacheDoc).ok

\* the source was deleted while the toolchain ran: no entry could be made,
\* and the output was reported
C25_WitnessUpsert ==
    /\ wpc = "done" /\ wres.how = "compiled" /\ Single(wargs)
    /\ ~get_file_hash(wfile).ok
    /\ cacheDoc = wsnap.doc

(***************************************************************************)
(* The catalog functions applied to the listing, platform, version and     *)
(* artifact name drawn at the start.                                       *)
(***************************************************************************)
\* the inputs are drawn at the start: a listing and a platform for the
\* builders, or a version and an artifact name for artifact_url
InitCatalog ==
    /\ InitFs /\ InitInstallers /\ InitCacheVars /\ InitWrapVars
    /\ lastPtr = [op |-> "none", v |-> NoVer]
    /\ \E pf \in Platforms :
          \/ \E listing \in CatalogListings :
                last = Called("input", listing, pf, NoVer, <<>>, <<>>)
          \/ \E v \in CatalogVersions, artifact \in Artifacts :
                last = Called("input", ListingDown, pf, v, artifact, <<>>)

NextCatalog ==
    \/ \E listing \in {last.listing}, pf \in {last.pf} : AllReleases(listing, pf)
    \/ \E listing \in {last.listing}, pf \in {last.pf} :
          BlockingAllReleases(listing, pf)
    \/ \E pf \in {last.pf}, v \in {last.v}, artifact \in {last.artifact} :
          ArtifactUrl(pf, v, artifact)

SpecCatalog == InitCatalog /\ [][NextCatalog]_vars

(***************************************************************************)
(* C26: for every list of releases and platform, the builder returns a map *)
(* that contains a version if and only if some asset of a release of that  *)
(* version has a name containing the platform token, and maps the version  *)
(* to the last such asset in iteration order; the blocking and the async   *)
(* builder return the same.                                                *)
(***************************************************************************)
\* the version a release's tag stands for, if any
TagVersion(r) == ParseVersion(TrimStartV(r.tag_name))

\* the places <<i, j>> of the assets of releases of version v whose name
\* contains the token
Matching(body, token, v) ==
    {ij \in (1..Len(body)) \X (1..2) :
        /\ TagVersion(body[ij[1]]) = {v}
        /\ ij[2] <= Len(body[ij[1]].assets)
        /\ Contains(body[ij[1]].assets[ij[2]], token)}

\* the last of a set of places in iteration order
LastPlace(S) ==
    CHOOSE x \in S : \A y \in S : y[1] < x[1] \/ (y[1] = x[1] /\ y[2] <= x[2])

\* the versions of the releases of a listing
TaggedVersions(body) == UNION {TagVersion(body[i]) : i \in 1..Len(body)}

\* what the claim says of the result of a builder
MapAsClaimed(res, body, token) ==
    /\ ~res.err /\ ~res.panic
    /\ DOMAIN res.releases =
          {v \in TaggedVersions(body) : Matching(body, token, v) /= {}}
    /\ \A v \in DOMAIN res.releases :
          LET x == LastPlace(Matching(body, token, v)) IN
          res.releases[v] = body[x[1]].assets[x[2]]

C26_CatalogLastMatchingAsset ==
    (last.op \in {"all_releases", "blocking_all_releases"} /\ ~last.listing.err) =>
        /\ MapAsClaimed(last.res, last.listing.body, PlatformToString(last.pf))
        /\ all_releases(last.listing, last.pf)
              = blocking_all_releases(last.listing, last.pf)

(***************************************************************************)
(* C27: the URL derived for (version, artifact name) is                    *)
(* https://github.com/vyperlang/vyper/releases/download/v<version>/ and    *)
(* the artifact name with every '+' written %2B; for 0.3.3 and             *)
(* vyper.0.3.3+commit.48e326f0.darwin it ends in                           *)
(* /v0.3.3/vyper.0.3.3%2Bcommit.48e326f0.darwin.                           *)
(***************************************************************************)
\* the name with every '+' percent-encoded
EncodePlus(name) == [i \in 1..Len(name) |-> IF name[i] = "+" THEN "%2B" ELSE name[i]]

C27_ArtifactUrlEncodesPlus ==
    (last.op = "artifact_url" /\ ~Contains(last.artifact, " ")) =>
        last.res = <<"https://github.com/vyperlang/vyper/releases/download/v">>
                      \o VersionToString(last.v) \o <<"/">>
                      \o EncodePlus(last.artifact)

(***************************************************************************)
(* Concurrent installs under fair scheduling: a thread that can take its   *)
(* next step takes it, and lock_exclusive returns once the lock is free.   *)
(***************************************************************************)
Fairness ==
    \A p \in Installers :
        /\ WF_vars(OpenLock(p))
        /\ WF_vars(LockExclusive(p))
        /\ WF_vars(SetupVersion(p))
        /\ WF_vars(CreateBinary(p))
        /\ WF_vars(SetPermissions(p))
        /\ WF_vars(CopyChunk(p))
        /\ WF_vars(DropRemove(p))
        /\ WF_vars(DropClose(p))

SpecInstallLive == InitInstall /\ [][NextInstall]_vars /\ Fairness

(***************************************************************************)
(* C29: under fair scheduling, with every lock holder's file operations    *)
(* completing, every install that has started waiting for a version's lock *)
(* eventually acquires it and terminates; no set of concurrent installs of *)
(* the same or of different versions deadlocks.                            *)
(***************************************************************************)
C29_WaitingInstallTerminates ==
    \A p \in Installers :
        /\ (pc[p] = "opened") ~> (pc[p] = "locked" /\ holder[lockFd[p]] = p)
        /\ (pc[p] = "opened") ~> (pc[p] = "done")

\* an install waits for a lock another install holds, while a third install
\* holds the lock of the other version
C29_Witness ==
    \E p, q, r \in Installers :
        /\ pc[p] = "opened" /\ holder[lockFd[p]] = q /\ q /= p
        /\ InCritical(r) /\ ver[r] /= ver[p]

(***************************************************************************)
(* C30: every cache entry the wrapper writes pairs an output with the hash *)
(* of the exact file content that was compiled to produce it, also when    *)
(* the source file is modified while the toolchain runs; so a later cache  *)
(* hit never returns output compiled from content other than the file's    *)
(* current content.                                                        *)
(***************************************************************************)
\* the output was compiled from content c, by whichever version
CompiledFrom(out, c) == \E v \in CatalogVersions : out = Compiled(v, c)

C30_EntryPairsCompiledContent ==
    [][/\ (wpc = "running" /\ wpc' = "done" /\ Persisting) =>
             \E c \in Contents :
                 /\ CompiledFrom(cache'.files[wfile].deployed_bytecode, c)
                 /\ cache'.files[wfile].content_hash = HexEncode(Md5(c), DigestBytes)
       /\ (wres'.how = "hit" /\ \E args \in ArgLists : WrapperStart(args)) =>
             CompiledFrom(wres'.out, src[wfile'].content)
      ]_vars

(***************************************************************************)
(* C31: a cache hit returns output produced by the currently active        *)
(* toolchain version: after the global version is changed with             *)
(* use_version, the wrapper does not serve, for an unchanged source file,  *)
(* output that was cached while a different version was active.            *)
(***************************************************************************)
\* the output was produced by version v, from whichever content
CompiledBy(out, v) == \E c \in Contents : out = Compiled(v, c)

C31_HitFromActiveVersion ==
    [][(/\ wres'.how = "hit"
        /\ current_version.err = "none" /\ current_version.val /= {}
        /\ \E args \in ArgLists : WrapperStart(args)) =>
            \E v \in current_version.val : CompiledBy(wres'.out, v)
      ]_vars

(***************************************************************************)
(* C32: releasing an install lock deletes only the lock file through which *)
(* the releasing installer itself holds the lock: a release never deletes  *)
(* a lock file that another installer has created and currently holds, for *)
(* any interleaving of three or more installers of the same version.       *)
(***************************************************************************)
\* the step is the remove_file of p's LockFile::drop, and it deletes inode i
Deletes(p, i) ==
    /\ pc[p] \in {"copy", "failing"}
    /\ pc'[p] \in {"unlinked", "unlinkedErr"}
    /\ lockIno[lock_file_path(ver[p])] = i
    /\ lockIno'[lock_file_path(ver[p])] = 0

C32_ReleaseDeletesOwnLockFile ==
    [][\A p \in Installers : \A i \in Inodes :
          Deletes(p, i) =>
            ~\E q \in Installers \ {p} : creator[i] = q /\ holder[i] = q
      ]_vars

(***************************************************************************)
(* C33: from any state reachable through the command line and the wrapper  *)
(* (also after the wrapper has persisted a cache under the root), when     *)
(* `vvm remove all` completes without error no version remains installed   *)
(* and current_version() is none.                                          *)
(***************************************************************************)
C33_RemoveAllLeavesNothing ==
    [][(CliRemoveAll /\ last'.ok) =>
          /\ InstalledNow' = {}
          /\ current_version'.err = "none"
          /\ current_version'.val = {}
      ]_vars

====
